---- MODULE Spec2Model ----
(***************************************************************************)
(* RawEditor: the GPU RAW rendering pipeline (src/gpu/pipeline.rs,         *)
(* src/gpu/shaders.rs), the edit parameters (src/state/edit.rs) and the    *)
(* editor life cycle of the application (src/main.rs).                     *)
(*                                                                         *)
(* Five specifications share the module:                                   *)
(*   Spec        the editor: RawEditor::update and its background tasks    *)
(*   SpecPipe    one RenderPipeline object: new, update_uniforms, the two  *)
(*               renders with their readback                               *)
(*   SpecShader  fs_main for one output pixel, one stage per step          *)
(*   SpecHist    calculate_histogram on a rendered buffer                  *)
(*   SpecCalc    one call of a computation without state: the RAW loader   *)
(*               (src/raw/loader.rs), the color matrix (src/color.rs),     *)
(*               the preview dimensions, the Levels denominator            *)
(*                                                                         *)
(* Shader and uniform values are f32 in the program.  The model computes   *)
(* them as exact rationals <<n, d>> (d > 0, lowest terms); pow(x, 1/2.2)   *)
(* is kept symbolic.  The f32 arithmetic of the preview dimensions is      *)
(* emulated bit for bit (FDiv).                                            *)
(***************************************************************************)
EXTENDS Integers, Sequences, FiniteSets, Bags, TLC

\* ------------------------------------------------------------------------
\* Exact rational arithmetic (the value domain of the f32 computations)
\* ------------------------------------------------------------------------

Abs(n) == IF n < 0 THEN -n ELSE n

RECURSIVE Gcd(_, _)
Gcd(a, b) == IF b = 0 THEN a ELSE Gcd(b, a % b)

\* The rational n/d in lowest terms with a positive denominator.
Q(n, d) ==
    LET s == IF d < 0 THEN -1 ELSE 1
        g == Gcd(Abs(n), Abs(d))
    IN  <<(s * n) \div g, (s * d) \div g>>

QI(n) == <<n, 1>>
Q0 == QI(0)
Q1 == QI(1)

\* Sums go over the least common denominator and products are cross-reduced
\* first, which keeps the intermediate integers small.
QAdd(a, b) ==
    LET g == Gcd(a[2], b[2])
    IN  Q(a[1] * (b[2] \div g) + b[1] * (a[2] \div g), (a[2] \div g) * b[2])
QNeg(a) == <<-a[1], a[2]>>
QSub(a, b) == QAdd(a, QNeg(b))
QMul(a, b) ==
    LET g1 == Gcd(Abs(a[1]), b[2])
        g2 == Gcd(Abs(b[1]), a[2])
    IN  Q((a[1] \div g1) * (b[1] \div g2), (a[2] \div g2) * (b[2] \div g1))
\* Division by a non-zero rational.  The Levels denominator is zero for
\* whites - blacks = -0.0001 (see LevelsDenominator); the parameter
\* snapshots of SpecShader and SpecPipe keep it non-zero.
QDiv(a, b) == QMul(a, Q(b[2], b[1]))
QLt(a, b) == a[1] * b[2] < b[1] * a[2]
QLe(a, b) == a[1] * b[2] <= b[1] * a[2]
QMin(a, b) == IF QLt(b, a) THEN b ELSE a
QMax(a, b) == IF QLt(a, b) THEN b ELSE a

RECURSIVE Pow2Nat(_)
Pow2Nat(k) == IF k = 0 THEN 1 ELSE 2 * Pow2Nat(k - 1)

\* pow(2.0, e) for a whole number of stops e.
Pow2(e) == IF e[1] >= 0 THEN QI(Pow2Nat(e[1])) ELSE Q(1, Pow2Nat(-e[1]))

\* vec3<f32> values are triples of rationals.
VScale(v, s) == <<QMul(v[1], s), QMul(v[2], s), QMul(v[3], s)>>
VMulV(v, w) == <<QMul(v[1], w[1]), QMul(v[2], w[2]), QMul(v[3], w[3])>>
VAdd(v, w) == <<QAdd(v[1], w[1]), QAdd(v[2], w[2]), QAdd(v[3], w[3])>>
VSub(v, w) == <<QSub(v[1], w[1]), QSub(v[2], w[2]), QSub(v[3], w[3])>>
VSplat(s) == <<s, s, s>>
Dot(v, w) == QAdd(QAdd(QMul(v[1], w[1]), QMul(v[2], w[2])), QMul(v[3], w[3]))

\* ------------------------------------------------------------------------
\* f32 division, round to nearest even, for positive operands
\* A positive f32 is <<m, e>>: the value m * 2^e with 2^23 <= m < 2^24.
\* ------------------------------------------------------------------------

MantissaBits == 24

\* u32 as f32 for 0 < n < 2^24 (exact).
RECURSIVE FNorm(_, _)
FNorm(m, e) == IF m >= Pow2Nat(MantissaBits - 1) THEN <<m, e>> ELSE FNorm(2 * m, e - 1)

\* Long division a / b, one quotient bit per step, until the quotient has
\* MantissaBits significant bits; then round to nearest, ties to even.
RECURSIVE FDivBits(_, _, _, _)
FDivBits(q, r, b, e) ==
    IF q >= Pow2Nat(MantissaBits - 1)
    THEN LET up == (2 * r > b) \/ (2 * r = b /\ q % 2 = 1)
             q1 == IF up THEN q + 1 ELSE q
         IN  IF q1 = Pow2Nat(MantissaBits) THEN <<q1 \div 2, e + 1>> ELSE <<q1, e>>
    ELSE \* (the next quotient and remainder are bound as set elements, so
         \* that each is computed once)
         LET r2 == 2 * r
             bit == IF r2 >= b THEN 1 ELSE 0
         IN  CHOOSE f \in {FDivBits(nq, nr, b, e - 1) :
                              nq \in {2 * q + bit}, nr \in {r2 - bit * b}} : TRUE

\* fl(x / y) for positive f32 x, y.  x[1] < 2 * y[1] always, so the first
\* quotient digit is 0 or 1.
FDiv(x, y) ==
    LET q0 == x[1] \div y[1]
        r0 == x[1] % y[1]
        f == FDivBits(q0, r0, y[1], 0)
    IN  <<f[1], f[2] + x[2] - y[2]>>

\* `as u32` of a positive f32: truncation toward zero.
FToU32(x) ==
    IF x[2] >= 0 THEN x[1] * Pow2Nat(x[2])
    ELSE IF -x[2] >= MantissaBits THEN 0
    ELSE x[1] \div Pow2Nat(-x[2])

U32ToF(n) == FNorm(n, 0)

MAX_PREVIEW_WIDTH == 2560

Min(a, b) == IF a < b THEN a ELSE b

\* RenderPipeline::new: the preview dimensions.
PreviewWidth(width) == Min(width, MAX_PREVIEW_WIDTH)
\* (each f32 value is bound as a set element, so that it is computed once)
PreviewHeight(width, height) ==
    CHOOSE preview_height \in
        {FToU32(quotient) :
            quotient \in {FDiv(preview_width, aspect_ratio) :
                preview_width \in {U32ToF(PreviewWidth(width))},
                aspect_ratio \in {FDiv(w, h) : w \in {U32ToF(width)}, h \in {U32ToF(height)}}}} : TRUE

\* ------------------------------------------------------------------------
\* EditParams (src/state/edit.rs)
\* ------------------------------------------------------------------------

EditFields ==
    <<"exposure", "contrast", "highlights", "shadows", "whites", "blacks",
      "vibrance", "saturation", "temperature", "tint">>

EditFieldSet == {EditFields[i] : i \in 1..Len(EditFields)}

\* impl Default for EditParams: every adjustment 0.
DefaultParams == [f \in EditFieldSet |-> Q0]

\* Variant of EditParams::reset that leaves the parameters as they are.
reset_unchanged(params) == params

is_unedited(params) == params = DefaultParams

reset(params) == DefaultParams

\* ------------------------------------------------------------------------
\* The uniform block: GpuEditParams (host, repr(C)) and the WGSL struct
\* EditParams, each as its field list; offsets are computed from the sizes
\* and alignments of the field types.
\* ------------------------------------------------------------------------

\* Variant of GpuEditParams declared without padding1 and padding2.
GpuEditParamsFieldsUnpadded ==
    <<[name |-> "exposure", ty |-> "f32", pad |-> FALSE],
      [name |-> "contrast", ty |-> "f32", pad |-> FALSE],
      [name |-> "highlights", ty |-> "f32", pad |-> FALSE],
      [name |-> "shadows", ty |-> "f32", pad |-> FALSE],
      [name |-> "whites", ty |-> "f32", pad |-> FALSE],
      [name |-> "blacks", ty |-> "f32", pad |-> FALSE],
      [name |-> "vibrance", ty |-> "f32", pad |-> FALSE],
      [name |-> "saturation", ty |-> "f32", pad |-> FALSE],
      [name |-> "temperature", ty |-> "f32", pad |-> FALSE],
      [name |-> "tint", ty |-> "f32", pad |-> FALSE],
      [name |-> "wb_multipliers", ty |-> "[f32; 4]", pad |-> FALSE],
      [name |-> "color_matrix_0", ty |-> "[f32; 3]", pad |-> FALSE],
      [name |-> "_padding3", ty |-> "f32", pad |-> TRUE],
      [name |-> "color_matrix_1", ty |-> "[f32; 3]", pad |-> FALSE],
      [name |-> "_padding4", ty |-> "f32", pad |-> TRUE],
      [name |-> "color_matrix_2", ty |-> "[f32; 3]", pad |-> FALSE],
      [name |-> "_padding5", ty |-> "f32", pad |-> TRUE]>>

\* struct GpuEditParams, in declaration order.
GpuEditParamsFields ==
    <<[name |-> "exposure", ty |-> "f32", pad |-> FALSE],
      [name |-> "contrast", ty |-> "f32", pad |-> FALSE],
      [name |-> "highlights", ty |-> "f32", pad |-> FALSE],
      [name |-> "shadows", ty |-> "f32", pad |-> FALSE],
      [name |-> "whites", ty |-> "f32", pad |-> FALSE],
      [name |-> "blacks", ty |-> "f32", pad |-> FALSE],
      [name |-> "vibrance", ty |-> "f32", pad |-> FALSE],
      [name |-> "saturation", ty |-> "f32", pad |-> FALSE],
      [name |-> "temperature", ty |-> "f32", pad |-> FALSE],
      [name |-> "tint", ty |-> "f32", pad |-> FALSE],
      [name |-> "padding1", ty |-> "f32", pad |-> TRUE],
      [name |-> "padding2", ty |-> "f32", pad |-> TRUE],
      [name |-> "wb_multipliers", ty |-> "[f32; 4]", pad |-> FALSE],
      [name |-> "color_matrix_0", ty |-> "[f32; 3]", pad |-> FALSE],
      [name |-> "_padding3", ty |-> "f32", pad |-> TRUE],
      [name |-> "color_matrix_1", ty |-> "[f32; 3]", pad |-> FALSE],
      [name |-> "_padding4", ty |-> "f32", pad |-> TRUE],
      [name |-> "color_matrix_2", ty |-> "[f32; 3]", pad |-> FALSE],
      [name |-> "_padding5", ty |-> "f32", pad |-> TRUE]>>

\* WGSL struct EditParams, in declaration order.
WgslEditParamsFields ==
    <<[name |-> "exposure", ty |-> "f32", pad |-> FALSE],
      [name |-> "contrast", ty |-> "f32", pad |-> FALSE],
      [name |-> "highlights", ty |-> "f32", pad |-> FALSE],
      [name |-> "shadows", ty |-> "f32", pad |-> FALSE],
      [name |-> "whites", ty |-> "f32", pad |-> FALSE],
      [name |-> "blacks", ty |-> "f32", pad |-> FALSE],
      [name |-> "vibrance", ty |-> "f32", pad |-> FALSE],
      [name |-> "saturation", ty |-> "f32", pad |-> FALSE],
      [name |-> "temperature", ty |-> "f32", pad |-> FALSE],
      [name |-> "tint", ty |-> "f32", pad |-> FALSE],
      [name |-> "padding1", ty |-> "f32", pad |-> TRUE],
      [name |-> "padding2", ty |-> "f32", pad |-> TRUE],
      [name |-> "wb_multipliers", ty |-> "vec4<f32>", pad |-> FALSE],
      [name |-> "color_matrix_0", ty |-> "vec3<f32>", pad |-> FALSE],
      [name |-> "padding3", ty |-> "f32", pad |-> TRUE],
      [name |-> "color_matrix_1", ty |-> "vec3<f32>", pad |-> FALSE],
      [name |-> "padding4", ty |-> "f32", pad |-> TRUE],
      [name |-> "color_matrix_2", ty |-> "vec3<f32>", pad |-> FALSE],
      [name |-> "padding5", ty |-> "f32", pad |-> TRUE]>>

\* Number of f32 components, size and alignment in bytes of a field type.
\* Rust repr(C): an array [f32; n] has the alignment of f32.  WGSL uniform
\* address space: vec3 and vec4 are aligned to 16 bytes, vec3 has size 12.
TypeComponents(ty) ==
    CASE ty = "f32" -> 1
      [] ty \in {"[f32; 3]", "vec3<f32>"} -> 3
      [] ty \in {"[f32; 4]", "vec4<f32>"} -> 4

TypeSize(ty) == 4 * TypeComponents(ty)

TypeAlign(ty) ==
    CASE ty \in {"f32", "[f32; 3]", "[f32; 4]"} -> 4
      [] ty \in {"vec3<f32>", "vec4<f32>"} -> 16

RoundUp(n, a) == ((n + a - 1) \div a) * a

\* Byte offset of field i of a field list: the end of field i-1 rounded up
\* to the alignment of field i.
RECURSIVE FieldOffset(_, _)
FieldOffset(fields, i) ==
    IF i = 1 THEN 0
    ELSE RoundUp(FieldOffset(fields, i - 1) + TypeSize(fields[i - 1].ty),
                 TypeAlign(fields[i].ty))

RECURSIVE MaxAlign(_, _)
MaxAlign(fields, i) ==
    IF i = 0 THEN 1
    ELSE LET a == TypeAlign(fields[i].ty)
             m == MaxAlign(fields, i - 1)
         IN  IF a > m THEN a ELSE m

\* Size of the struct: the end of the last field rounded up to the struct's
\* alignment.
StructSize(fields) ==
    RoundUp(FieldOffset(fields, Len(fields)) + TypeSize(fields[Len(fields)].ty),
            MaxAlign(fields, Len(fields)))

\* The offsets of all fields of a struct, in declaration order.
RECURSIVE FieldOffsets(_, _)
FieldOffsets(fields, n) ==
    IF n = 0 THEN <<>>
    ELSE Append(FieldOffsets(fields, n - 1), FieldOffset(fields, n))

GpuEditParamsOffsets == FieldOffsets(GpuEditParamsFields, Len(GpuEditParamsFields))
WgslEditParamsOffsets == FieldOffsets(WgslEditParamsFields, Len(WgslEditParamsFields))

FieldIndex(fields, name) == CHOOSE i \in 1..Len(fields) : fields[i].name = name

\* impl From<&EditParams> for GpuEditParams: the ten parameters (temperature
\* and tint converted `as f32`), zero padding, neutral white balance and the
\* identity matrix.  A GpuEditParams value maps each field name to the
\* sequence of its f32 components.
GpuEditParamsFrom(params) ==
    [n \in {GpuEditParamsFields[i].name : i \in 1..Len(GpuEditParamsFields)} |->
        CASE n \in EditFieldSet -> <<params[n]>>
          [] n = "wb_multipliers" -> <<Q1, Q1, Q1, Q1>>
          [] n = "color_matrix_0" -> <<Q1, Q0, Q0>>
          [] n = "color_matrix_1" -> <<Q0, Q1, Q0>>
          [] n = "color_matrix_2" -> <<Q0, Q0, Q1>>
          [] OTHER -> <<Q0>>]

\* The color metadata written over the defaults (RenderPipeline::new and
\* update_uniforms): the four multipliers and the flat matrix split in rows.
WithColorMetadata(gpu_params, wb_multipliers, cm) ==
    [gpu_params EXCEPT !["wb_multipliers"] = wb_multipliers,
                       !["color_matrix_0"] = <<cm[1], cm[2], cm[3]>>,
                       !["color_matrix_1"] = <<cm[4], cm[5], cm[6]>>,
                       !["color_matrix_2"] = <<cm[7], cm[8], cm[9]>>]

\* bytemuck::cast_slice(&[gpu_params]): the struct as 4-byte words.  Word k
\* holds the component of the host field that covers byte offset 4k; a word
\* no field covers is implicit padding.
UniformWords == StructSize(GpuEditParamsFields) \div 4

CastSlice(gpu_params) ==
    [k \in 0..(UniformWords - 1) |->
        LET covering == {i \in 1..Len(GpuEditParamsFields) :
                            /\ GpuEditParamsOffsets[i] <= 4 * k
                            /\ 4 * k < GpuEditParamsOffsets[i]
                                          + TypeSize(GpuEditParamsFields[i].ty)}
        IN  IF covering = {} THEN "implicit_padding"
            ELSE LET i == CHOOSE j \in covering : TRUE
                 IN  gpu_params[GpuEditParamsFields[i].name]
                        [(4 * k - GpuEditParamsOffsets[i]) \div 4 + 1]]

\* The shader's read of params.<name>: the components at the WGSL offset of
\* the field.
UniformRead(buffer, name) ==
    LET i == FieldIndex(WgslEditParamsFields, name)
        off == WgslEditParamsOffsets[i] \div 4
    IN  [j \in 1..TypeComponents(WgslEditParamsFields[i].ty) |-> buffer[off + j - 1]]

\* ------------------------------------------------------------------------
\* The fragment shader (src/gpu/shaders.rs)
\* A texture is [width, height, data]: data is the Vec<u16> uploaded by
\* write_texture, row-major with 2 * width bytes per row.
\* ------------------------------------------------------------------------

\* textureLoad(input_texture, coords, 0).r.  The shader issues no load
\* outside the texture (see TextureLoads); WGSL defines such a load to
\* yield zero or the value of a texel inside, and the model takes zero.
TextureLoad(tex, x, y) ==
    IF 0 <= x /\ x < tex.width /\ 0 <= y /\ y < tex.height
    THEN tex.data[y * tex.width + x + 1]
    ELSE 0

BIT_DEPTH_SCALE == 4096

Clamp(v, lo, hi) == IF v < lo THEN lo ELSE IF v > hi THEN hi ELSE v

\* Variant of get_neighbor's coordinates without the clamp.
NeighborCoordsUnclamped(tex, x, y) == <<x, y>>

\* get_neighbor: the coordinates clamped to the texture.
NeighborCoords(tex, x, y) ==
    <<Clamp(x, 0, tex.width - 1), Clamp(y, 0, tex.height - 1)>>

\* get_neighbor: the texel at the clamped coordinates.
get_neighbor(tex, x, y) ==
    LET clamped == NeighborCoords(tex, x, y)
    IN  Q(TextureLoad(tex, clamped[1], clamped[2]), BIT_DEPTH_SCALE)

\* debayer: the branch taken, chosen by the parity of (coords.y + 1,
\* coords.x).
DebayerRule(cx, cy) ==
    LET x == cx
        y == cy + 1
        is_even_row == (y % 2) = 0
        is_even_col == (x % 2) = 0
    IN  IF is_even_row
        THEN IF is_even_col THEN "green_blue_row" ELSE "blue"
        ELSE IF is_even_col THEN "red" ELSE "green_red_row"

\* The pixel's own texel (`normalized`).
Self == <<0, 0>>

\* Where each branch reads (r, g, b): Self, or the offset handed to
\* get_neighbor.
RuleOffsets(rule) ==
    CASE rule = "green_blue_row" -> \* blue right, red below
            <<(<<0, 1>>), Self, (<<1, 0>>)>>
      [] rule = "blue" -> \* green left, red diagonal
            <<(<<-1, 1>>), (<<-1, 0>>), Self>>
      [] rule = "red" -> \* green right, blue above
            <<Self, (<<1, 0>>), (<<0, -1>>)>>
      [] rule = "green_red_row" -> \* red left, blue above
            <<(<<-1, 0>>), Self, (<<0, -1>>)>>

\* debayer(coords, dimensions)
debayer(tex, cx, cy) ==
    LET normalized == Q(TextureLoad(tex, cx, cy), BIT_DEPTH_SCALE)
        offsets == RuleOffsets(DebayerRule(cx, cy))
        channel(o) == IF o = Self THEN normalized
                      ELSE get_neighbor(tex, cx + o[1], cy + o[2])
    IN  <<channel(offsets[1]), channel(offsets[2]), channel(offsets[3])>>

\* The texel coordinates the textureLoad calls of debayer and get_neighbor
\* address for pixel_coords (cx, cy).
TextureLoads(tex, cx, cy) ==
    LET offsets == RuleOffsets(DebayerRule(cx, cy))
    IN  {<<cx, cy>>}
           \cup {NeighborCoords(tex, cx + offsets[k][1], cy + offsets[k][2]) :
                    k \in {n \in 1..3 : offsets[n] # Self}}

\* Rec. 709 luminance weights (0.2126, 0.7152, 0.0722).
LumaWeights == <<Q(2126, 10000), Q(7152, 10000), Q(722, 10000)>>

\* The guard added to the Levels denominator (0.0001).
LevelsEpsilon == Q(1, 10000)

\* The denominator of the Levels statement: whites - blacks + 0.0001.
LevelsDenominator(whites, blacks) == QAdd(QSub(whites, blacks), LevelsEpsilon)

Hundred == QI(100)

\* pow(c, 1/2.2) of one channel, kept symbolic: <<"pow", c, "5/11">> stands
\* for c^(1/2.2).  The power is increasing and fixes 0 and 1.  pow of a
\* negative base is not a number.
GammaEncode(c) == IF QLt(c, Q0) THEN "NaN" ELSE <<"pow", c, "5/11">>

\* clamp(x, 0.0, 1.0) of one gamma-encoded channel.
ClampEncoded(g) ==
    IF g = "NaN" THEN "NaN" ELSE <<"pow", QMax(Q0, QMin(g[2], Q1)), "5/11">>

\* Variant of the stage order with the color matrix before white balance.
StageOrderMatrixFirst ==
    <<"debayer", "color_matrix", "white_balance", "exposure",
      "highlights_shadows", "contrast", "levels", "saturation",
      "gamma_encode", "clamp">>

\* The stages of fs_main, in the order of the statements of its body.
StageOrder ==
    <<"debayer", "white_balance", "color_matrix", "exposure",
      "highlights_shadows", "contrast", "levels", "saturation",
      "gamma_encode", "clamp">>

\* A shader invocation ctx is [tex, buffer, cx, cy]: the bound texture, the
\* bound uniform buffer and pixel_coords.
Param(ctx, name) == UniformRead(ctx.buffer, name)[1]

\* One stage of fs_main applied to the running value of `color`.
ApplyStage(stage, color, ctx) ==
    CASE stage = "debayer" -> debayer(ctx.tex, ctx.cx, ctx.cy)
      [] stage = "white_balance" ->
            LET wb == UniformRead(ctx.buffer, "wb_multipliers")
            IN  VMulV(color, <<wb[1], wb[2], wb[3]>>)
      [] stage = "color_matrix" ->
            \* mat3x3(c0, c1, c2) takes its arguments as columns
            LET c0 == UniformRead(ctx.buffer, "color_matrix_0")
                c1 == UniformRead(ctx.buffer, "color_matrix_1")
                c2 == UniformRead(ctx.buffer, "color_matrix_2")
            IN  VAdd(VAdd(VScale(c0, color[1]), VScale(c1, color[2])), VScale(c2, color[3]))
      [] stage = "exposure" -> VScale(color, Pow2(Param(ctx, "exposure")))
      [] stage = "highlights_shadows" ->
            LET lum_for_tone == Dot(color, LumaWeights)
                c1 == VScale(color, QAdd(Q1, QMul(lum_for_tone, Param(ctx, "highlights"))))
            IN  VScale(c1, QAdd(Q1, QMul(QSub(Q1, lum_for_tone), Param(ctx, "shadows"))))
      [] stage = "contrast" ->
            LET contrast_factor == QAdd(Q1, QDiv(Param(ctx, "contrast"), Hundred))
                half == VSplat(Q(1, 2))
            IN  VAdd(VScale(VSub(color, half), contrast_factor), half)
      [] stage = "levels" ->
            LET blacks == Param(ctx, "blacks")
                denom == LevelsDenominator(Param(ctx, "whites"), blacks)
                num == VSub(color, VSplat(blacks))
            IN  <<QDiv(num[1], denom), QDiv(num[2], denom), QDiv(num[3], denom)>>
      [] stage = "saturation" ->
            LET luminance == Dot(color, LumaWeights)
                sat_factor == QAdd(Q1, QDiv(Param(ctx, "saturation"), Hundred))
            IN  \* mix(a, b, t) = a * (1 - t) + b * t
                VAdd(VScale(VSplat(luminance), QSub(Q1, sat_factor)), VScale(color, sat_factor))
      [] stage = "gamma_encode" ->
            <<GammaEncode(color[1]), GammaEncode(color[2]), GammaEncode(color[3])>>
      [] stage = "clamp" ->
            <<ClampEncoded(color[1]), ClampEncoded(color[2]), ClampEncoded(color[3])>>

\* `color` after the first k statements of fs_main.
RECURSIVE ColorAfter(_, _)
ColorAfter(ctx, k) ==
    IF k = 0 THEN <<Q0, Q0, Q0>>
    ELSE \* (the previous value is bound as a set element, so that it is
         \* computed once)
         CHOOSE c \in {ApplyStage(StageOrder[k], prev, ctx) :
                          prev \in {ColorAfter(ctx, k - 1)}} : TRUE

\* fs_main: vec4(color, 1.0) after all the stages.
fs_main(ctx) ==
    LET color == ColorAfter(ctx, Len(StageOrder))
    IN  <<color[1], color[2], color[3], Q1>>

\* pixel_coords of the fragment at target pixel (px, py) of a tw x th
\* target: tex_coords is the pixel centre ((px + 1/2) / tw, (py + 1/2) / th)
\* and pixel_coords = i32(tex_coords * dimensions).
PixelCoord(p, target, dim) == ((2 * p + 1) * dim) \div (2 * target)

\* ------------------------------------------------------------------------
\* RenderPipeline (src/gpu/pipeline.rs)
\* ------------------------------------------------------------------------

\* Variant of RenderPipeline::new that fills the uniform buffer from the
\* default parameters instead of `params`.
RenderPipelineNewDefaultUniforms(image_id, raw_data, width, height, params, wb_multipliers, color_matrix, device) ==
    [image_id |-> image_id,
     width |-> width,
     height |-> height,
     preview_width |-> PreviewWidth(width),
     preview_height |-> PreviewHeight(width, height),
     texture |-> [width |-> width, height |-> height, data |-> raw_data],
     texture_writes |-> 1,
     uniform_buffer |->
        CastSlice(WithColorMetadata(GpuEditParamsFrom(DefaultParams), wb_multipliers,
                                    color_matrix)),
     wb_multipliers |-> wb_multipliers,
     color_matrix |-> color_matrix,
     device |-> device]

\* RenderPipeline::new after the adapter and the device were acquired: the
\* texture is created and uploaded once (texture_writes counts the
\* write_texture calls on it), the uniform buffer is created from params and
\* the color metadata.  `device` identifies the device request_device
\* returned for this call.
RenderPipelineNew(image_id, raw_data, width, height, params, wb_multipliers, color_matrix, device) ==
    [image_id |-> image_id,
     width |-> width,
     height |-> height,
     preview_width |-> PreviewWidth(width),
     preview_height |-> PreviewHeight(width, height),
     texture |-> [width |-> width, height |-> height, data |-> raw_data],
     texture_writes |-> 1,
     uniform_buffer |->
        CastSlice(WithColorMetadata(GpuEditParamsFrom(params), wb_multipliers, color_matrix)),
     wb_multipliers |-> wb_multipliers,
     color_matrix |-> color_matrix,
     device |-> device]

\* Variant of update_uniforms that uploads the converted parameters as they
\* are, with the neutral white balance and the identity matrix of the
\* conversion.
update_uniforms_converted_only(pipeline, params) ==
    [pipeline EXCEPT !.uniform_buffer = CastSlice(GpuEditParamsFrom(params))]

\* RenderPipeline::update_uniforms: queue.write_buffer of the whole block.
update_uniforms(pipeline, params) ==
    [pipeline EXCEPT !.uniform_buffer =
        CastSlice(WithColorMetadata(GpuEditParamsFrom(params),
                                    pipeline.wb_multipliers, pipeline.color_matrix))]

\* A fragment's output stored in the Rgba8Unorm attachment: four bytes,
\* each the quantisation <<"unorm8", channel>> of a channel.
StoreUnorm8(rgba) ==
    <<(<<"unorm8", rgba[1]>>), (<<"unorm8", rgba[2]>>),
      (<<"unorm8", rgba[3]>>), (<<"unorm8", rgba[4]>>)>>

\* The fragment of target pixel (x, y): fs_main at the pixel's centre.
Fragment(pipeline, tw, th, x, y) ==
    CHOOSE texel \in
        {StoreUnorm8(rgba) :
            rgba \in {fs_main([tex |-> pipeline.texture,
                               buffer |-> pipeline.uniform_buffer,
                               cx |-> PixelCoord(x, tw, pipeline.width),
                               cy |-> PixelCoord(y, th, pipeline.height)])}} : TRUE

\* Row y of the target, pixels x0..x1 (the row is built by halves).
RECURSIVE RenderSpan(_, _, _, _, _, _)
RenderSpan(pipeline, tw, th, x0, x1, y) ==
    IF x0 > x1 THEN <<>>
    ELSE IF x0 = x1 THEN <<Fragment(pipeline, tw, th, x0, y)>>
    ELSE LET mid == (x0 + x1) \div 2
         IN  RenderSpan(pipeline, tw, th, x0, mid, y)
                \o RenderSpan(pipeline, tw, th, mid + 1, x1, y)

RECURSIVE RenderRows(_, _, _, _)
RenderRows(pipeline, tw, th, y) ==
    IF y >= th THEN <<>>
    ELSE <<RenderSpan(pipeline, tw, th, 0, tw - 1, y)>> \o RenderRows(pipeline, tw, th, y + 1)

\* render_to_target into a tw x th Rgba8Unorm attachment: the full-screen
\* triangle runs fs_main once per pixel; texel (x, y) is target[y + 1][x + 1].
render_to_target(pipeline, tw, th) == RenderRows(pipeline, tw, th, 0)

COPY_BYTES_PER_ROW_ALIGNMENT == 256

\* (bytes_per_row + 255) & !255
PaddedBytesPerRow(bytes_per_row) ==
    ((bytes_per_row + (COPY_BYTES_PER_ROW_ALIGNMENT - 1)) \div COPY_BYTES_PER_ROW_ALIGNMENT)
        * COPY_BYTES_PER_ROW_ALIGNMENT

\* A byte of the mapped buffer between the end of a row's pixels and the
\* next multiple of the row pitch: not written by the copy.
RowPadding == <<"row_padding">>

\* copy_texture_to_buffer + map_async: the mapped output buffer of
\* padded_bytes_per_row * th bytes.  Row y of the target starts at offset
\* y * padded_bytes_per_row; the copy writes nothing past the 4 * tw bytes
\* of a row.
MappedBuffer(target, tw, th) ==
    LET padded_bytes_per_row == PaddedBytesPerRow(tw * 4)
    IN  [o \in 0..(padded_bytes_per_row * th - 1) |->
            LET y == o \div padded_bytes_per_row
                i == o % padded_bytes_per_row
            IN  IF i < tw * 4 THEN target[y + 1][(i \div 4) + 1][(i % 4) + 1]
                ELSE RowPadding]

\* data[start..end] as a sequence.
Slice(data, start, end) == [k \in 1..(end - start) |-> data[start + k - 1]]

\* Variant of the readback loop that steps by the unpadded row length.
RECURSIVE StripRowsUnpadded(_, _, _, _, _)
StripRowsUnpadded(data, y, tw, th, output) ==
    IF y >= th THEN output
    ELSE LET start == y * (tw * 4)
             end == start + tw * 4
         IN  StripRowsUnpadded(data, y + 1, tw, th, output \o Slice(data, start, end))

\* The readback loop: for y in 0..th { output.extend_from_slice(&data[start..end]) }
RECURSIVE StripRows(_, _, _, _, _)
StripRows(data, y, tw, th, output) ==
    IF y >= th THEN output
    ELSE LET start == y * PaddedBytesPerRow(tw * 4)
             end == start + tw * 4
         IN  StripRows(data, y + 1, tw, th, output \o Slice(data, start, end))

\* ------------------------------------------------------------------------
\* The RAW loader (src/raw/loader.rs)
\* An f32 the loader computes with is a rational <<n, d>> with d > 0, or one
\* of the non-finite values below.
\* ------------------------------------------------------------------------

NaN == <<0, 0>>
PosInf == <<1, 0>>
NegInf == <<-1, 0>>

\* f32::is_finite, f32::is_nan
is_finite(x) == x[2] # 0
is_nan(x) == x = NaN

\* a < b on f32 values (false when either is NaN).
F32Lt(a, b) ==
    IF is_nan(a) \/ is_nan(b) THEN FALSE
    ELSE IF a = b THEN FALSE
    ELSE IF a = NegInf \/ b = PosInf THEN TRUE
    ELSE IF a = PosInf \/ b = NegInf THEN FALSE
    ELSE QLt(a, b)

\* f32::max: the larger operand; the other operand when one is NaN.
F32Max(a, b) ==
    IF is_nan(a) THEN b
    ELSE IF is_nan(b) THEN a
    ELSE IF F32Lt(a, b) THEN b ELSE a

\* a / g for a divisor g > 0 (g_ref is at least 0.001): NaN propagates,
\* inf / inf is NaN, finite / inf is 0, inf / finite keeps its sign.
F32Div(a, g) ==
    IF is_nan(a) \/ is_nan(g) THEN NaN
    ELSE IF ~is_finite(g) THEN (IF is_finite(a) THEN Q0 ELSE NaN)
    ELSE IF ~is_finite(a) THEN a
    ELSE QDiv(a, g)

\* The lower bound of g_ref (0.001).
GreenFloor == Q(1, 1000)

\* loader.rs 78-97: four coefficients as they are, three with the green
\* repeated, else the neutral vector.
SelectWb(wb_coeffs) ==
    IF Len(wb_coeffs) >= 4
    THEN <<wb_coeffs[1], wb_coeffs[2], wb_coeffs[3], wb_coeffs[4]>>
    ELSE IF Len(wb_coeffs) >= 3
    THEN <<wb_coeffs[1], wb_coeffs[2], wb_coeffs[3], wb_coeffs[2]>>
    ELSE <<Q1, Q1, Q1, Q1>>

\* loader.rs 99-110: division by g_ref = max(green, 0.001); the fourth
\* channel is G2 / g_ref when G2 is finite and positive, else green / g_ref.
NormalizeWb(wb_multipliers) ==
    LET g_ref == F32Max(wb_multipliers[2], GreenFloor)
    IN  <<F32Div(wb_multipliers[1], g_ref),
          F32Div(wb_multipliers[2], g_ref),
          F32Div(wb_multipliers[3], g_ref),
          IF is_finite(wb_multipliers[4]) /\ F32Lt(Q0, wb_multipliers[4])
          THEN F32Div(wb_multipliers[4], g_ref)
          ELSE F32Div(wb_multipliers[2], g_ref)>>

\* floor of a non-negative rational.
FloorQ(a) == a[1] \div a[2]

\* loader.rs 62-73: Integer data is cloned; a Float sample v becomes
\* (v * 65535.0).clamp(0.0, 65535.0) as u16.
ConvertData(data) ==
    IF data[1] = "Integer" THEN data[2]
    ELSE [k \in 1..Len(data[2]) |->
            FloorQ(QMax(Q0, QMin(QMul(data[2][k], QI(65535)), QI(65535))))]

\* load_raw_data_blocking(path) on a file [exists, decodes, width, height,
\* data, wb_coeffs, xyz_to_cam]: the color matrix is the identity whether or
\* not the file has an xyz_to_cam matrix.
load_raw_data_blocking(file) ==
    IF ~file.exists THEN [tag |-> "Err", err |-> "File not found"]
    ELSE IF ~file.decodes THEN [tag |-> "Err", err |-> "Failed to decode RAW"]
    ELSE [tag |-> "Ok",
          data |-> ConvertData(file.data),
          width |-> file.width,
          height |-> file.height,
          wb_multipliers |-> NormalizeWb(SelectWb(file.wb_coeffs)),
          color_matrix |-> <<Q1, Q0, Q0, Q0, Q1, Q0, Q0, Q0, Q1>>]

\* ------------------------------------------------------------------------
\* Color matrices (src/color.rs); a matrix is its nine entries, row-major
\* ------------------------------------------------------------------------

XYZ_TO_SRGB ==
    <<Q(32406, 10000), Q(-15372, 10000), Q(-4986, 10000),
      Q(-9689, 10000), Q(18758, 10000), Q(415, 10000),
      Q(557, 10000), Q(-2040, 10000), Q(10570, 10000)>>

IdentityMatrix == <<Q1, Q0, Q0, Q0, Q1, Q0, Q0, Q0, Q1>>

\* Variant of calculate_cam_to_srgb_matrix that hands its argument back.
calculate_cam_to_srgb_matrix_unchanged(xyz_to_cam) == xyz_to_cam

\* color::calculate_cam_to_srgb_matrix: returns the identity for every input.
calculate_cam_to_srgb_matrix(xyz_to_cam) == IdentityMatrix

QAbs(a) == <<Abs(a[1]), a[2]>>

\* is_identity_matrix: every entry within EPSILON = 0.001 of the identity's.
IdentityEpsilon == Q(1, 1000)
is_identity_matrix(matrix) ==
    \A i \in 1..9 :
        QLt(QAbs(QSub(matrix[i], IF i \in {1, 5, 9} THEN Q1 ELSE Q0)), IdentityEpsilon)

\* ------------------------------------------------------------------------
\* State.  Five parts, each driven by its own specification while the
\* others stay idle: one RenderPipeline object (SpecPipe), one fragment
\* shader invocation (SpecShader), one histogram call (SpecHist), and the
\* application RawEditor with its background tasks (Spec), and one call of
\* a computation without state (SpecCalc).
\* ------------------------------------------------------------------------

VARIABLES
    pp_pipeline,   \* the RenderPipeline, or NoPipeline
    pp_given,      \* the arguments the pipeline was constructed from
    pp_params,     \* the EditParams snapshot last delivered to the pipeline
    pp_mapped,     \* the mapped output buffer of the last render
    pp_out,        \* the last render: [kind, width, height, bytes, params]
    pp_prev_out,   \* the preview render before the last preview render
    pp_readback    \* the last render call: the map result and how the call ended

pipeVars ==
    <<pp_pipeline, pp_given, pp_params, pp_mapped, pp_out, pp_prev_out, pp_readback>>

VARIABLES
    sh_ctx,     \* the invocation's inputs: texture, uniform buffer, pixel_coords
    sh_pc,      \* the number of stages executed; Len(StageOrder) + 1 after return
    sh_color,   \* the shader's `color` variable
    sh_trace,   \* the stages executed so far, in order
    sh_out      \* the returned vec4, or NoOutput

shaderVars == <<sh_ctx, sh_pc, sh_color, sh_trace, sh_out>>

VARIABLES
    hs_dims,    \* preview_width, preview_height of the rendered buffer
    hs_bytes,   \* the rendered RGBA bytes
    hs_out      \* the histograms returned, or NoHistogram

histVars == <<hs_dims, hs_bytes, hs_out>>

VARIABLES
    library,              \* "None" until the database is loaded, then "Some"
    images,               \* the ids of the images of the library, in order
    selected_image_id,    \* the selected image, or NoneId
    current_tab,          \* "Library" or "Develop"
    current_edit_params,  \* the EditParams under the sliders
    editor_status,        \* NoSelection, Loading(id), Ready(pipeline), Failed(id, err)
    saved_edits,          \* the edits table of the database: image id -> EditParams
    database_task,        \* TRUE while load_database_async is in flight
    load_tasks,           \* bag of load_raw_data tasks in flight, by image
    construct_tasks,      \* bag of RenderPipeline::new tasks in flight
    export_tasks,         \* bag of export_image_async tasks in flight
    pipelines,            \* the live RenderPipeline objects, by instance
    devices_created       \* number of GPU devices request_device has returned

editorVars ==
    <<library, images, selected_image_id, current_tab, current_edit_params,
      editor_status, saved_edits, database_task, load_tasks, construct_tasks,
      export_tasks, pipelines, devices_created>>

VARIABLES
    ca_call,    \* the computation and its argument: [fn, arg]
    ca_result   \* its result, or NoResult

calcVars == <<ca_call, ca_result>>

\* The view state of the Develop tab (fields of RawEditor).
VARIABLES
    show_before,           \* the Before/After toggle
    zoom,                  \* the zoom level
    pan_offset,            \* the pan offset, <<x, y>>
    is_dragging,           \* a mouse button is down on the image
    last_cursor_position,  \* NoPoint, or the last position seen: <<x, y>>
    last_click_time,       \* "None", or "Some" once a press has been handled
    viewport_size          \* the viewport estimate, <<w, h>>

viewVars ==
    <<show_before, zoom, pan_offset, is_dragging, last_cursor_position,
      last_click_time, viewport_size>>

\* The thumbnail queue: the cache_status column of the images table and the
\* background tasks that read and write it.
VARIABLES
    cache_status,      \* file id -> "absent" (no row), "pending", "needs_slow",
                       \* "cached" or "failed"
    thumbnail_tasks,   \* bag of generate_thumbnails_async tasks in flight
    import_tasks       \* bag of import_folder_async tasks in flight

thumbVars == <<cache_status, thumbnail_tasks, import_tasks>>

vars == <<pipeVars, shaderVars, histVars, editorVars, calcVars, viewVars, thumbVars>>

\* ------------------------------------------------------------------------
\* SpecPipe: one RenderPipeline object and its callers' view of it
\* ------------------------------------------------------------------------


NoPipeline == [image_id |-> -1]
NoRender == [kind |-> "none"]
NoArgs == [image_id |-> -1]
NoReadback == [map |-> "none"]

NeutralWb == <<Q1, Q1, Q1, Q1>>

\* The mosaic of a frame: one value per Bayer site, by parity.
SiteValues == <<1024, 2048, 512, 4096>>
Mosaic(width, height) ==
    [k \in 1..(width * height) |->
        SiteValues[2 * (((k - 1) \div width) % 2) + (((k - 1) % width) % 2) + 1]]

\* The frames of SpecPipe: width, height, white balance multipliers, color
\* matrix.  65 pixels give a row of 260 bytes, more than one alignment unit;
\* a 1 x 7 frame has a preview of 1 x 6.
CameraWb == <<QI(2), Q1, Q(3, 2), Q1>>
CameraMatrix == <<Q1, Q0, Q0, Q0, Q(1, 2), Q(1, 2), Q0, Q0, Q1>>
PipeFrames ==
    {<<2, 2, NeutralWb, IdentityMatrix>>,
     <<2, 2, CameraWb, CameraMatrix>>,
     <<1, 7, CameraWb, CameraMatrix>>,
     <<65, 2, NeutralWb, IdentityMatrix>>}

PipeParams ==
    {DefaultParams,
     [DefaultParams EXCEPT !["exposure"] = QI(-1), !["whites"] = QI(1), !["tint"] = QI(5)]}

\* RenderPipeline::new(..).await: Err when no adapter is found or the device
\* request fails, else the constructed pipeline.
PipeNew(dims, params, wb, cm, result) ==
    /\ pp_pipeline = NoPipeline
    /\ IF result = "ok"
       THEN
         /\ pp_pipeline' = RenderPipelineNew(1, Mosaic(dims[1], dims[2]), dims[1], dims[2],
                                             params, wb, cm, 1)
         /\ pp_given' = [image_id |-> 1, raw_data |-> Mosaic(dims[1], dims[2]),
                         width |-> dims[1], height |-> dims[2], params |-> params,
                         wb_multipliers |-> wb, color_matrix |-> cm,
                         uniform_buffer |-> pp_pipeline'.uniform_buffer]
         /\ pp_params' = params
         /\ pp_mapped' = <<>>
         /\ pp_out' = NoRender
         /\ pp_prev_out' = NoRender
         /\ pp_readback' = NoReadback
       ELSE UNCHANGED pipeVars
    /\ UNCHANGED <<shaderVars, histVars, editorVars, calcVars, viewVars, thumbVars>>

PipeUpdateUniforms(params) ==
    /\ pp_pipeline # NoPipeline
    /\ pp_pipeline' = update_uniforms(pp_pipeline, params)
    /\ pp_params' = params
    /\ UNCHANGED <<pp_given, pp_mapped, pp_out, pp_prev_out, pp_readback>>
    /\ UNCHANGED <<shaderVars, histVars, editorVars, calcVars, viewVars, thumbVars>>

\* The body shared by render_to_bytes and render_full_res_to_bytes for a
\* tw x th target: draw, copy to the padded buffer, map it, strip the rows.
RenderAndReadback(kind, tw, th) ==
    /\ \E target \in {render_to_target(pp_pipeline, tw, th)} :
          pp_mapped' = MappedBuffer(target, tw, th)
    /\ pp_out' = [kind |-> kind, width |-> tw, height |-> th,
                  bytes |-> StripRows(pp_mapped', 0, tw, th, <<>>),
                  params |-> pp_params]

\* What the map_async callback can deliver after device.poll(Wait): Ok(()),
\* or a BufferAsyncError (the map failed, or the device was lost).
MapResults == {"ok", "map_error", "device_lost"}

\* rx.recv().unwrap().unwrap(): the call goes on with Ok(()) and panics on
\* Err(BufferAsyncError); the return type Vec<u8> has no error value.
ReadbackEnd(map_result) ==
    IF map_result = "ok" THEN "returned" ELSE "panicked"

\* render_to_bytes: the preview target.
PipeRenderToBytes(map_result) ==
    /\ pp_pipeline # NoPipeline
    /\ pp_readback' = [map |-> map_result, outcome |-> ReadbackEnd(map_result)]
    /\ IF map_result = "ok"
       THEN /\ RenderAndReadback("preview", pp_pipeline.preview_width,
                                 pp_pipeline.preview_height)
            /\ pp_prev_out' = IF pp_out.kind = "preview" THEN pp_out ELSE pp_prev_out
       ELSE UNCHANGED <<pp_mapped, pp_out, pp_prev_out>>
    /\ UNCHANGED <<pp_pipeline, pp_given, pp_params>>
    /\ UNCHANGED <<shaderVars, histVars, editorVars, calcVars, viewVars, thumbVars>>

\* render_full_res_to_bytes: the full-size target.
PipeRenderFullRes(map_result) ==
    /\ pp_pipeline # NoPipeline
    /\ pp_readback' = [map |-> map_result, outcome |-> ReadbackEnd(map_result)]
    /\ IF map_result = "ok"
       THEN RenderAndReadback("full", pp_pipeline.width, pp_pipeline.height)
       ELSE UNCHANGED <<pp_mapped, pp_out>>
    /\ UNCHANGED <<pp_pipeline, pp_given, pp_params, pp_prev_out>>
    /\ UNCHANGED <<shaderVars, histVars, editorVars, calcVars, viewVars, thumbVars>>

\* ------------------------------------------------------------------------
\* SpecShader: one invocation of fs_main, statement by statement
\* ------------------------------------------------------------------------


NoOutput == <<>>
NoCtx == [cx |-> -1]

\* 2 x 2 mosaics the invocations read.
ShaderMosaics ==
    {<<2048, 2048, 2048, 2048>>, <<1024, 2048, 512, 4096>>, <<0, 512, 1024, 0>>}

\* Parameter snapshots: the default, and one adjustment each.
ShaderParams ==
    {DefaultParams,
     [DefaultParams EXCEPT !["whites"] = QI(1)],
     [DefaultParams EXCEPT !["whites"] = QI(1), !["exposure"] = QI(1)],
     [DefaultParams EXCEPT !["whites"] = QI(1), !["contrast"] = QI(50)],
     [DefaultParams EXCEPT !["whites"] = QI(1), !["saturation"] = QI(-100)],
     [DefaultParams EXCEPT !["whites"] = Q(6, 5), !["blacks"] = Q(1, 10)]}

ShaderColorMetadata == {<<NeutralWb, IdentityMatrix>>, <<CameraWb, CameraMatrix>>}

\* The 4 x 4 mosaic with one value per colour of the pattern the branches
\* of debayer name: the texel of a pixel handled by the red branch holds
\* the red value, by the blue branch the blue value, by a green branch the
\* green value (rows R G R G / G B G B).
BayerValues == [red |-> 1024, green |-> 2048, blue |-> 512]
BayerMosaic(width, height) ==
    [k \in 1..(width * height) |->
        LET rule == DebayerRule((k - 1) % width, (k - 1) \div width)
        IN  CASE rule = "red" -> BayerValues.red
              [] rule = "blue" -> BayerValues.blue
              [] OTHER -> BayerValues.green]

\* The invocations: every pixel of the 2 x 2 textures under every parameter
\* snapshot, and every pixel of the 4 x 4 Bayer mosaic.
ShaderContexts ==
    {[tex |-> [width |-> 2, height |-> 2, data |-> data],
      buffer |-> CastSlice(WithColorMetadata(GpuEditParamsFrom(params), meta[1], meta[2])),
      cx |-> cx, cy |-> cy] :
        data \in ShaderMosaics, params \in ShaderParams, meta \in ShaderColorMetadata,
        cx \in 0..1, cy \in 0..1}
    \cup
    {[tex |-> [width |-> 4, height |-> 4, data |-> BayerMosaic(4, 4)],
      buffer |-> CastSlice(WithColorMetadata(
                     GpuEditParamsFrom([DefaultParams EXCEPT !["whites"] = QI(1)]),
                     NeutralWb, IdentityMatrix)),
      cx |-> cx, cy |-> cy] :
        cx \in 0..3, cy \in 0..3}

\* The next statement of fs_main that assigns `color`.
ShaderStage ==
    /\ sh_pc < Len(StageOrder)
    /\ sh_color' = ApplyStage(StageOrder[sh_pc + 1], sh_color, sh_ctx)
    /\ sh_trace' = Append(sh_trace, StageOrder[sh_pc + 1])
    /\ sh_pc' = sh_pc + 1
    /\ UNCHANGED <<sh_ctx, sh_out>>
    /\ UNCHANGED <<pipeVars, histVars, editorVars, calcVars, viewVars, thumbVars>>

\* return vec4<f32>(color, 1.0)
ShaderReturn ==
    /\ sh_pc = Len(StageOrder)
    /\ sh_out' = <<sh_color[1], sh_color[2], sh_color[3], Q1>>
    /\ sh_pc' = sh_pc + 1
    /\ UNCHANGED <<sh_ctx, sh_color, sh_trace>>
    /\ UNCHANGED <<pipeVars, histVars, editorVars, calcVars, viewVars, thumbVars>>

\* ------------------------------------------------------------------------
\* SpecHist: calculate_histogram on a rendered preview buffer
\* ------------------------------------------------------------------------

\* Variant of the histogram loop that counts the fourth byte of a pixel as
\* its blue channel.
RECURSIVE HistogramLoopFourthByte(_, _, _)
HistogramLoopFourthByte(rgba_bytes, k, histograms) ==
    IF 4 * k > Len(rgba_bytes) THEN histograms
    ELSE LET r == rgba_bytes[4 * k - 3]
             g == rgba_bytes[4 * k - 2]
             b == rgba_bytes[4 * k]
         IN  HistogramLoopFourthByte(rgba_bytes, k + 1,
                [histograms EXCEPT ![1][r] = @ + 1, ![2][g] = @ + 1, ![3][b] = @ + 1])

\* The histogram loop over the chunks of four bytes from chunk k on.
RECURSIVE HistogramLoop(_, _, _)
HistogramLoop(rgba_bytes, k, histograms) ==
    IF 4 * k > Len(rgba_bytes) THEN histograms
    ELSE LET r == rgba_bytes[4 * k - 3]
             g == rgba_bytes[4 * k - 2]
             b == rgba_bytes[4 * k - 1]
         IN  HistogramLoop(rgba_bytes, k + 1,
                [histograms EXCEPT ![1][r] = @ + 1, ![2][g] = @ + 1, ![3][b] = @ + 1])

\* RenderPipeline::calculate_histogram
calculate_histogram(rgba_bytes) ==
    HistogramLoop(rgba_bytes, 1, [c \in 1..3 |-> [v \in 0..255 |-> 0]])


NoHistogram == <<>>

\* The largest number of pixels of a buffer.
MaxHistPixels == 3

\* The RGBA pixels the buffers are made of.
HistPixels == {<<0, 0, 0, 255>>, <<255, 0, 7, 255>>, <<7, 7, 255, 0>>, <<0, 255, 0, 7>>}

RECURSIVE Flatten(_)
Flatten(pixels) == IF pixels = <<>> THEN <<>> ELSE Head(pixels) \o Flatten(Tail(pixels))

HistCalculate ==
    /\ hs_out = NoHistogram
    /\ hs_out' = calculate_histogram(hs_bytes)
    /\ UNCHANGED <<hs_dims, hs_bytes>>
    /\ UNCHANGED <<pipeVars, shaderVars, editorVars, calcVars, viewVars, thumbVars>>

\* ------------------------------------------------------------------------
\* SpecCalc: the computations without state, each applied to an argument
\* drawn at the start: load_raw_data_blocking on a file, the RawDataLoaded
\* handler's calculate_cam_to_srgb_matrix on a calibration matrix, the
\* preview dimensions of RenderPipeline::new on a frame size, and the
\* Levels denominator of fs_main on (whites, blacks).
\* ------------------------------------------------------------------------

NoResult == [tag |-> "none"]
NoCall == [fn |-> "none"]

\* The white balance coefficients of the files.
WbCoeffs ==
    {<<>>,
     <<QI(2), Q1>>,
     <<QI(2), Q1, Q(3, 2)>>,
     <<QI(2), Q(1, 2), Q1>>,
     <<Q1, Q(1, 2000), Q1>>,
     <<QI(2), Q0, Q(3, 2)>>,
     <<QI(2), QI(-1), Q(3, 2)>>,
     <<QI(2), NaN, Q(3, 2)>>,
     <<QI(2), PosInf, Q(3, 2)>>,
     <<QI(2), Q1, Q(3, 2), Q1>>,
     <<QI(2), QI(2), QI(3), QI(3)>>,
     <<QI(2), Q1, Q(3, 2), NaN>>,
     <<QI(2), Q1, Q(3, 2), Q0>>,
     <<QI(2), Q0, Q(3, 2), Q0>>,
     <<NaN, NaN, NaN, NaN>>}

\* The sensor data of the files: integer samples, or float samples.
FileData ==
    {<<"Integer", <<1024, 2048, 512, 4096>>>>,
     <<"Float", <<Q0, Q(1, 2), Q1, QI(2)>>>>}

CalcFiles ==
    {[exists |-> FALSE], [exists |-> TRUE, decodes |-> FALSE]}
        \cup {[exists |-> TRUE, decodes |-> TRUE, width |-> 2, height |-> 2,
               data |-> data, wb_coeffs |-> wb_coeffs, xyz_to_cam |-> has_matrix] :
                 data \in FileData, wb_coeffs \in WbCoeffs, has_matrix \in BOOLEAN}

\* Calibration matrices: triangular matrices over {0, 1, 2}, among them the
\* zero matrix and the identity, and one matrix within epsilon of the
\* identity.
CalibrationEntries == {Q0, Q1, QI(2)}
NearIdentityMatrix ==
    <<Q(2001, 2000), Q(1, 2000), Q0, Q0, Q1, Q(-1, 2000), Q0, Q0, Q(1999, 2000)>>
CalibrationMatrices ==
    {<<a, x, Q0, y, b, Q0, Q0, Q0, c>> :
        a \in CalibrationEntries, b \in CalibrationEntries, c \in CalibrationEntries,
        x \in {Q0, Q1}, y \in {Q0, Q1}}
        \cup {NearIdentityMatrix}

\* Frame sizes: small ones, sensor sizes, sizes around the preview limit,
\* and strips more than MAX_PREVIEW_WIDTH times as wide as high.
CalcFrames ==
    {<<1, 1>>, <<1, 7>>, <<2, 2>>, <<65, 2>>, <<640, 480>>, <<640, 600>>,
     <<1920, 1080>>, <<2560, 1707>>, <<2561, 1707>>, <<2816, 1320>>,
     <<6000, 4000>>, <<6016, 4016>>, <<2560, 1>>, <<2561, 1>>, <<6000, 2>>}

\* whites and blacks values: the defaults, slider positions, and values
\* around the guard.
CalcWhites == {Q0, Q1, Q(4, 5), Q(6, 5), Q(-1, 10000)}
CalcBlacks == {Q0, Q(1, 10000), Q(3, 20000), Q(1, 200), Q(1, 5), Q1}

CalcCalls ==
    {[fn |-> "load_raw_data_blocking", arg |-> file] : file \in CalcFiles}
        \cup {[fn |-> "calculate_cam_to_srgb_matrix", arg |-> m] :
                 m \in CalibrationMatrices}
        \cup {[fn |-> "preview_dimensions", arg |-> frame] : frame \in CalcFrames}
        \cup {[fn |-> "levels_denominator", arg |-> <<w, b>>] :
                 w \in CalcWhites, b \in CalcBlacks}

\* load_raw_data_blocking(path)
CalcLoadRawData ==
    /\ ca_call.fn = "load_raw_data_blocking"
    /\ ca_result = NoResult
    /\ ca_result' = load_raw_data_blocking(ca_call.arg)
    /\ UNCHANGED ca_call
    /\ UNCHANGED <<pipeVars, shaderVars, histVars, editorVars, viewVars, thumbVars>>

\* calculate_cam_to_srgb_matrix(xyz_to_cam): the function has one return
\* statement, which yields a [f32; 9].
CalcCamToSrgb ==
    /\ ca_call.fn = "calculate_cam_to_srgb_matrix"
    /\ ca_result = NoResult
    /\ ca_result' = [tag |-> "value",
                     matrix |-> calculate_cam_to_srgb_matrix(ca_call.arg)]
    /\ UNCHANGED ca_call
    /\ UNCHANGED <<pipeVars, shaderVars, histVars, editorVars, viewVars, thumbVars>>

\* RenderPipeline::new, lines 112-115: the preview dimensions.
CalcPreviewDimensions ==
    /\ ca_call.fn = "preview_dimensions"
    /\ ca_result = NoResult
    /\ ca_result' = [tag |-> "value",
                     preview_width |-> PreviewWidth(ca_call.arg[1]),
                     preview_height |-> PreviewHeight(ca_call.arg[1], ca_call.arg[2])]
    /\ UNCHANGED ca_call
    /\ UNCHANGED <<pipeVars, shaderVars, histVars, editorVars, viewVars, thumbVars>>

\* fs_main, the Levels statement: its denominator.
CalcLevelsDenominator ==
    /\ ca_call.fn = "levels_denominator"
    /\ ca_result = NoResult
    /\ ca_result' = [tag |-> "value",
                     denominator |-> LevelsDenominator(ca_call.arg[1], ca_call.arg[2])]
    /\ UNCHANGED ca_call
    /\ UNCHANGED <<pipeVars, shaderVars, histVars, editorVars, viewVars, thumbVars>>

\* ------------------------------------------------------------------------
\* The specifications
\* ------------------------------------------------------------------------

\* ------------------------------------------------------------------------
\* Spec: the application RawEditor (src/main.rs)
\* A background task and the delivery of its message are one step: a task
\* touches nothing of the application state until its message is handled.
\* ------------------------------------------------------------------------

\* Number of images in the library.
MaxImages == 2
\* Tasks in flight at a time (load, construct and export tasks together).
MaxTasks == 2
\* Devices the model lets request_device return.
MaxDevices == 2

ImageIds == 1..MaxImages
NoneId == 0

NoSelection == [tag |-> "NoSelection"]
Loading(id) == [tag |-> "Loading", id |-> id]
Ready(pipeline) == [tag |-> "Ready", pipeline |-> pipeline]
Failed(id, err) == [tag |-> "Failed", id |-> id, err |-> err]

\* The values the sliders of the model are moved to, and the sliders moved.
SliderValues == {Q0, Q1}
SliderFields == {"exposure"}

NoEdits == [saved |-> FALSE]

\* Library::load_edit_params(id).unwrap_or_else(default): the saved edits of
\* the image, the defaults when it has none.
load_edit_params(id) ==
    IF saved_edits[id] = NoEdits THEN DefaultParams ELSE saved_edits[id]

\* The sensor data load_raw_data decodes from the file of image `id`: a
\* 2 x 2 mosaic and the white balance of the file.
RawDataOf(id) ==
    [image |-> id,
     width |-> 2,
     height |-> 2,
     data |-> [k \in 1..4 |-> SiteValues[((k + id) % 4) + 1]],
     wb_multipliers |-> IF id % 2 = 1 THEN CameraWb ELSE NeutralWb,
     color_matrix |-> IdentityMatrix]

TasksInFlight ==
    BagCardinality(load_tasks) + BagCardinality(construct_tasks)
        + BagCardinality(export_tasks)

\* The pipelines still referenced (Arc): by the editor status or by an export
\* task.
Referenced(status, exports) ==
    (IF status.tag = "Ready" THEN {status.pipeline} ELSE {})
        \cup {t.pipeline : t \in BagToSet(exports)}

Collect(heap, status, exports) ==
    [p \in (DOMAIN heap) \cap Referenced(status, exports) |-> heap[p]]

\* Variant of needs_load that asks for a load whatever the editor status.
needs_load_always(image_id) == TRUE

\* needs_load of ImageSelected and TabChanged.
needs_load(image_id) ==
    CASE editor_status.tag = "Ready" ->
            pipelines[editor_status.pipeline].image_id # image_id
      [] editor_status.tag = "Loading" -> editor_status.id # image_id
      [] OTHER -> TRUE

\* The common tail of ImageSelected and TabChanged on the Develop tab: start
\* loading `image_id` unless its pipeline is loaded or loading.
StartLoadIfNeeded(image_id) ==
    IF needs_load(image_id) /\ \E i \in 1..Len(images) : images[i] = image_id
    THEN /\ TasksInFlight < MaxTasks
         /\ editor_status' = Loading(image_id)
         /\ load_tasks' = load_tasks (+) SetToBag({image_id})
         /\ pipelines' = Collect(pipelines, editor_status', export_tasks)
    ELSE UNCHANGED <<editor_status, load_tasks, pipelines>>

\* A generate_thumbnails_async task that has not run its first query yet.
\* `batch` is pending_images (then slow_images), still to be processed.
NewPass == [pc |-> "select", batch |-> <<>>, pending_at_count |-> 0]

\* Message::DatabaseLoaded(result)
DatabaseLoaded(result) ==
    /\ database_task
    /\ database_task' = FALSE
    /\ IF result = "ok"
       THEN /\ library' = "Some"
            /\ images' = [i \in 1..MaxImages |-> i]
            /\ thumbnail_tasks' = thumbnail_tasks (+) SetToBag({NewPass})
       ELSE UNCHANGED <<library, images, thumbnail_tasks>>
    /\ UNCHANGED <<selected_image_id, current_tab, current_edit_params, editor_status,
                   saved_edits, load_tasks, construct_tasks, export_tasks, pipelines,
                   devices_created>>
    /\ UNCHANGED <<cache_status, import_tasks>>
    /\ UNCHANGED <<pipeVars, shaderVars, histVars, calcVars, viewVars>>

\* The body of Message::ImageSelected(image_id).
HandleImageSelected(image_id) ==
    /\ selected_image_id' = image_id
    /\ current_edit_params' =
          IF library = "Some" THEN load_edit_params(image_id) ELSE current_edit_params
    /\ IF current_tab = "Develop"
       THEN StartLoadIfNeeded(image_id)
       ELSE UNCHANGED <<editor_status, load_tasks, pipelines>>
    /\ UNCHANGED <<library, images, current_tab, saved_edits, database_task,
                   construct_tasks, export_tasks, devices_created>>
    /\ UNCHANGED <<pipeVars, shaderVars, histVars, calcVars, viewVars, thumbVars>>

\* Message::ImageSelected(image_id): a click on a thumbnail of the library
\* grid.
ImageSelected(image_id) ==
    /\ library = "Some"
    /\ current_tab = "Library"
    /\ \E i \in 1..Len(images) : images[i] = image_id
    /\ HandleImageSelected(image_id)

\* The index of the selected image in `images`.
SelectedIndex == CHOOSE i \in 1..Len(images) : images[i] = selected_image_id

\* Message::SelectNextImage (ArrowRight)
SelectNextImage ==
    /\ selected_image_id # NoneId
    /\ \E i \in 1..Len(images) : images[i] = selected_image_id
    /\ HandleImageSelected(images[(SelectedIndex % Len(images)) + 1])

\* Message::SelectPreviousImage (ArrowLeft)
SelectPreviousImage ==
    /\ selected_image_id # NoneId
    /\ \E i \in 1..Len(images) : images[i] = selected_image_id
    /\ HandleImageSelected(images[IF SelectedIndex = 1 THEN Len(images)
                                  ELSE SelectedIndex - 1])

\* Message::TabChanged(tab)
TabChanged(tab) ==
    /\ library = "Some"
    /\ current_tab' = tab
    /\ IF tab = "Develop" /\ selected_image_id # NoneId
       THEN StartLoadIfNeeded(selected_image_id)
       ELSE UNCHANGED <<editor_status, load_tasks, pipelines>>
    /\ UNCHANGED <<library, images, selected_image_id, current_edit_params, saved_edits,
                   database_task, construct_tasks, export_tasks, devices_created>>
    /\ UNCHANGED <<pipeVars, shaderVars, histVars, calcVars, viewVars, thumbVars>>

\* save_current_edits
save_current_edits(params) ==
    IF library = "Some" /\ selected_image_id # NoneId
    THEN [saved_edits EXCEPT ![selected_image_id] = params]
    ELSE saved_edits

\* The pipelines after `pipeline.update_uniforms(&params)` on the Ready
\* pipeline, if there is one.
UpdateReadyPipeline(params) ==
    IF editor_status.tag = "Ready"
    THEN [pipelines EXCEPT ![editor_status.pipeline] = update_uniforms(@, params)]
    ELSE pipelines

\* Message::ExposureChanged(value) and the nine handlers like it: the slider
\* of `field` moved to `value`.  The sliders are shown on the Develop tab
\* while the editor is Ready.
ParamChanged(field, value) ==
    /\ library = "Some"
    /\ current_tab = "Develop"
    /\ editor_status.tag = "Ready"
    /\ selected_image_id # NoneId
    /\ current_edit_params' = [current_edit_params EXCEPT ![field] = value]
    /\ saved_edits' = save_current_edits(current_edit_params')
    /\ pipelines' = UpdateReadyPipeline(current_edit_params')
    /\ UNCHANGED <<library, images, selected_image_id, current_tab, editor_status,
                   database_task, load_tasks, construct_tasks, export_tasks,
                   devices_created>>
    /\ UNCHANGED <<pipeVars, shaderVars, histVars, calcVars, viewVars, thumbVars>>

\* Message::ResetEdits (the Reset button, or the key R)
ResetEdits ==
    /\ current_edit_params' = reset(current_edit_params)
    /\ saved_edits' =
          IF library = "Some" /\ selected_image_id # NoneId
          THEN [saved_edits EXCEPT ![selected_image_id] = NoEdits]
          ELSE saved_edits
    /\ pipelines' = UpdateReadyPipeline(current_edit_params')
    /\ UNCHANGED <<library, images, selected_image_id, current_tab, editor_status,
                   database_task, load_tasks, construct_tasks, export_tasks,
                   devices_created>>
    /\ UNCHANGED <<pipeVars, shaderVars, histVars, calcVars, viewVars, thumbVars>>

\* Variant of the RawDataLoaded handler that, on Ok, drops the data and
\* starts no construction.
RawDataLoadedDropped(image, result) ==
    /\ BagIn(image, load_tasks)
    /\ load_tasks' = load_tasks (-) SetToBag({image})
    /\ IF result = "ok"
       THEN UNCHANGED <<editor_status, pipelines>>
       ELSE /\ editor_status' = Failed(selected_image_id, result)
            /\ pipelines' = Collect(pipelines, editor_status', export_tasks)
    /\ UNCHANGED construct_tasks
    /\ UNCHANGED <<library, images, selected_image_id, current_tab, current_edit_params,
                   saved_edits, database_task, export_tasks, devices_created>>
    /\ UNCHANGED <<pipeVars, shaderVars, histVars, calcVars, viewVars, thumbVars>>

\* Message::RawDataLoaded(result) for the load task of image `image`.
RawDataLoaded(image, result) ==
    /\ BagIn(image, load_tasks)
    /\ load_tasks' = load_tasks (-) SetToBag({image})
    /\ IF result = "ok"
       THEN /\ construct_tasks' = construct_tasks (+) SetToBag({
                  [image_id |-> selected_image_id,
                   raw_data |-> RawDataOf(image),
                   cam_to_srgb |-> calculate_cam_to_srgb_matrix(RawDataOf(image).color_matrix),
                   params |-> current_edit_params]})
            /\ UNCHANGED <<editor_status, pipelines>>
       ELSE /\ editor_status' = Failed(selected_image_id, result)
            /\ pipelines' = Collect(pipelines, editor_status', export_tasks)
            /\ UNCHANGED construct_tasks
    /\ UNCHANGED <<library, images, selected_image_id, current_tab, current_edit_params,
                   saved_edits, database_task, export_tasks, devices_created>>
    /\ UNCHANGED <<pipeVars, shaderVars, histVars, calcVars, viewVars, thumbVars>>

\* The results of RenderPipeline::new: the pipeline, or the error of
\* request_adapter (ok_or) or of request_device (map_err).
GpuErrors == {"no_adapter", "device_error"}
ConstructResults == {"ok"} \cup GpuErrors

\* Variant of the GpuPipelineReady handler that, on an error, starts the
\* load of the selected image again.
GpuPipelineReadyReload(task, result) ==
    /\ BagIn(task, construct_tasks)
    /\ construct_tasks' = construct_tasks (-) SetToBag({task})
    /\ result # "ok"
    /\ editor_status' = Failed(selected_image_id, result)
    /\ load_tasks' = load_tasks (+) SetToBag({selected_image_id})
    /\ pipelines' = Collect(pipelines, editor_status', export_tasks)
    /\ UNCHANGED <<library, images, selected_image_id, current_tab, current_edit_params,
                   saved_edits, database_task, export_tasks, devices_created>>
    /\ UNCHANGED <<pipeVars, shaderVars, histVars, calcVars, viewVars, thumbVars>>

\* The task RenderPipeline::new(..) of `task` ends and
\* Message::GpuPipelineReady(result) is handled.
GpuPipelineReady(task, result) ==
    /\ BagIn(task, construct_tasks)
    /\ construct_tasks' = construct_tasks (-) SetToBag({task})
    /\ IF result = "ok"
       THEN LET device == devices_created + 1
            IN  /\ devices_created < MaxDevices
                /\ devices_created' = device
                /\ editor_status' = Ready(device)
                /\ pipelines' =
                      Collect([p \in (DOMAIN pipelines) \cup {device} |->
                                  IF p = device
                                  THEN RenderPipelineNew(task.image_id, task.raw_data.data,
                                           task.raw_data.width, task.raw_data.height,
                                           task.params, task.raw_data.wb_multipliers,
                                           task.cam_to_srgb, device)
                                  ELSE pipelines[p]],
                              Ready(device), export_tasks)
       ELSE /\ editor_status' = Failed(selected_image_id, result)
            /\ pipelines' = Collect(pipelines, editor_status', export_tasks)
            /\ UNCHANGED devices_created
    /\ UNCHANGED <<library, images, selected_image_id, current_tab, current_edit_params,
                   saved_edits, database_task, load_tasks, export_tasks>>
    /\ UNCHANGED <<pipeVars, shaderVars, histVars, calcVars, viewVars, thumbVars>>

\* Message::ToggleBeforeAfter (the key Space)
ToggleBeforeAfter ==
    /\ show_before' = ~show_before
    /\ UNCHANGED <<zoom, pan_offset, is_dragging, last_cursor_position, last_click_time,
                   viewport_size>>
    /\ UNCHANGED <<pipeVars, shaderVars, histVars, editorVars, calcVars, thumbVars>>

\* RenderPipeline::update_uniforms_with_zoom: the uniform write of
\* update_uniforms; the uniform block of GpuEditParams has no field for the
\* zoom or the pan.
update_uniforms_with_zoom(pipeline, params, zoom_level, pan_x, pan_y) ==
    update_uniforms(pipeline, params)

\* params_to_render of view_develop.
params_to_render ==
    IF show_before THEN DefaultParams ELSE current_edit_params

\* view_develop with a Ready pipeline: the uniforms are written with
\* params_to_render and the preview is rendered.
ViewDevelop ==
    /\ library = "Some"
    /\ current_tab = "Develop"
    /\ editor_status.tag = "Ready"
    /\ \E i \in 1..Len(images) : images[i] = selected_image_id
    /\ pipelines' = [pipelines EXCEPT ![editor_status.pipeline] =
                        update_uniforms_with_zoom(@, params_to_render, zoom,
                                                  pan_offset[1], pan_offset[2])]
    /\ UNCHANGED <<library, images, selected_image_id, current_tab, current_edit_params,
                   editor_status, saved_edits, database_task, load_tasks, construct_tasks,
                   export_tasks, devices_created>>
    /\ UNCHANGED <<pipeVars, shaderVars, histVars, calcVars, viewVars, thumbVars>>

\* Message::ExportImage: the Export button; `chosen` is whether the file
\* dialog returned a path.
ExportImage(chosen) ==
    /\ library = "Some"
    /\ current_tab = "Develop"
    /\ editor_status.tag = "Ready"
    /\ selected_image_id # NoneId
    /\ IF chosen
       THEN /\ TasksInFlight < MaxTasks
            /\ export_tasks' = export_tasks (+) SetToBag({
                  [pipeline |-> editor_status.pipeline, phase |-> "queued",
                   \* (not a field of the task: the parameters current when
                   \* the export was requested)
                   requested |-> current_edit_params]})
       ELSE UNCHANGED export_tasks
    /\ UNCHANGED <<library, images, selected_image_id, current_tab, current_edit_params,
                   editor_status, saved_edits, database_task, load_tasks, construct_tasks,
                   pipelines, devices_created>>
    /\ UNCHANGED <<pipeVars, shaderVars, histVars, calcVars, viewVars, thumbVars>>

\* export_image_async on its blocking thread: render_full_res_to_bytes
\* begins.
ExportRenderBegin(task) ==
    /\ BagIn(task, export_tasks)
    /\ task.phase = "queued"
    /\ export_tasks' = (export_tasks (-) SetToBag({task}))
                          (+) SetToBag({[task EXCEPT !.phase = "rendering"]})
    /\ UNCHANGED <<library, images, selected_image_id, current_tab, current_edit_params,
                   editor_status, saved_edits, database_task, load_tasks, construct_tasks,
                   pipelines, devices_created>>
    /\ UNCHANGED <<pipeVars, shaderVars, histVars, calcVars, viewVars, thumbVars>>

\* render_full_res_to_bytes returns, the file is written and
\* Message::ExportComplete(result) is handled: the task's clone of the Arc
\* is gone.
ExportComplete(task) ==
    /\ BagIn(task, export_tasks)
    /\ task.phase = "rendering"
    /\ export_tasks' = export_tasks (-) SetToBag({task})
    /\ pipelines' = Collect(pipelines, editor_status, export_tasks')
    /\ UNCHANGED <<library, images, selected_image_id, current_tab, current_edit_params,
                   editor_status, saved_edits, database_task, load_tasks, construct_tasks,
                   devices_created>>
    /\ UNCHANGED <<pipeVars, shaderVars, histVars, calcVars, viewVars, thumbVars>>

\* Option<Point>::None.
NoPoint == <<>>

\* Files on disk that an import can add to the images table: the ids their
\* rows get.
MaxImported == 1
FileIds == 1..(MaxImages + MaxImported)

\* RawEditor::new: the view fields.
InitView ==
    /\ show_before = FALSE
    /\ zoom = Q1
    /\ pan_offset = <<Q0, Q0>>
    /\ is_dragging = FALSE
    /\ last_cursor_position = NoPoint
    /\ last_click_time = "None"
    /\ viewport_size = <<QI(1280), QI(854)>>

\* The images table at start: the rows of the library's images, none with a
\* thumbnail yet (cache_status has the column's default), and no task.
InitThumb ==
    /\ cache_status = [id \in FileIds |-> IF id \in ImageIds THEN "pending" ELSE "absent"]
    /\ thumbnail_tasks = EmptyBag
    /\ import_tasks = EmptyBag

\* ------------------------------------------------------------------------
\* The thumbnail queue (main.rs: import_folder_async,
\* generate_thumbnails_async and their messages).  Each SQL statement of a
\* background task is one step: the tasks run on their own connections,
\* concurrently with each other.
\* ------------------------------------------------------------------------

\* The elements of a set of ids in ascending order (ORDER BY id).
RECURSIVE OrderById(_)
OrderById(ids) ==
    IF ids = {} THEN <<>>
    ELSE LET least == CHOOSE id \in ids : \A other \in ids : id <= other
         IN  <<least>> \o OrderById(ids \ {least})

\* SELECT id .. WHERE cache_status = status ORDER BY id LIMIT limit
SelectByStatus(status, limit) ==
    LET rows == OrderById({id \in FileIds : cache_status[id] = status})
    IN  SubSeq(rows, 1, Min(limit, Len(rows)))

\* SELECT COUNT(*) .. WHERE cache_status = status
CountByStatus(status) == Cardinality({id \in FileIds : cache_status[id] = status})

\* The elements of a set of ids in descending order.
RECURSIVE OrderByIdDesc(_)
OrderByIdDesc(ids) ==
    IF ids = {} THEN <<>>
    ELSE LET greatest == CHOOSE id \in ids : \A other \in ids : id >= other
         IN  <<greatest>> \o OrderByIdDesc(ids \ {greatest})

\* Library::get_all_images: the rows of the images table, ORDER BY
\* imported_at DESC: the files imported since the start, latest first,
\* then the rows the library held at the start as DatabaseLoaded lists them.
get_all_images ==
    OrderByIdDesc({id \in FileIds \ ImageIds : cache_status[id] # "absent"})
        \o [i \in 1..MaxImages |-> i]

fast_batch_size == 5
slow_batch_size == 1

\* A task of the bag replaced by its next state.
Advance(tasks, task, next) == (tasks (-) SetToBag({task})) (+) SetToBag({next})

\* Message::ImportFolder: the folder dialog returns the folder that holds
\* the files not imported yet.  One import runs at a time: the model's bound
\* on the import tasks.
ImportFolder ==
    /\ library = "Some"
    /\ import_tasks = EmptyBag
    /\ \E id \in FileIds : cache_status[id] = "absent"
    /\ import_tasks' = import_tasks (+) SetToBag({
          [files |-> OrderById({id \in FileIds : cache_status[id] = "absent"})]})
    /\ UNCHANGED <<cache_status, thumbnail_tasks>>
    /\ UNCHANGED <<pipeVars, shaderVars, histVars, editorVars, calcVars, viewVars>>

\* import_folder_async: the INSERT of the next file; its row gets the
\* default cache_status, a duplicate is skipped.
ImportInsert(task) ==
    /\ BagIn(task, import_tasks)
    /\ task.files # <<>>
    /\ cache_status' =
          IF cache_status[Head(task.files)] = "absent"
          THEN [cache_status EXCEPT ![Head(task.files)] = "pending"]
          ELSE cache_status
    /\ import_tasks' = Advance(import_tasks, task, [files |-> Tail(task.files)])
    /\ UNCHANGED thumbnail_tasks
    /\ UNCHANGED <<pipeVars, shaderVars, histVars, editorVars, calcVars, viewVars>>

\* import_folder_async returns and Message::ImportComplete is handled.
ImportComplete(task) ==
    /\ BagIn(task, import_tasks)
    /\ task.files = <<>>
    /\ import_tasks' = import_tasks (-) SetToBag({task})
    /\ IF library = "Some"
       THEN /\ images' = get_all_images
            /\ thumbnail_tasks' = thumbnail_tasks (+) SetToBag({NewPass})
       ELSE UNCHANGED <<images, thumbnail_tasks>>
    /\ UNCHANGED cache_status
    /\ UNCHANGED <<library, selected_image_id, current_tab, current_edit_params,
                   editor_status, saved_edits, database_task, load_tasks, construct_tasks,
                   export_tasks, pipelines, devices_created>>
    /\ UNCHANGED <<pipeVars, shaderVars, histVars, calcVars, viewVars>>

\* generate_thumbnails_async: the query of the fast queue.
ThumbSelectPending(task) ==
    /\ BagIn(task, thumbnail_tasks)
    /\ task.pc = "select"
    /\ LET pending_images == SelectByStatus("pending", fast_batch_size)
       IN  thumbnail_tasks' = Advance(thumbnail_tasks, task,
               [task EXCEPT !.pc = IF pending_images = <<>> THEN "count" ELSE "fast",
                            !.batch = pending_images])
    /\ UNCHANGED <<cache_status, import_tasks>>
    /\ UNCHANGED <<pipeVars, shaderVars, histVars, editorVars, calcVars, viewVars>>

\* One iteration of the loop over pending_images: generate_thumbnail_fast
\* returns Some (found) or None, and the row is updated.
ThumbFast(task, found) ==
    /\ BagIn(task, thumbnail_tasks)
    /\ task.pc = "fast"
    /\ cache_status' = [cache_status EXCEPT ![Head(task.batch)] =
                           IF found THEN "cached" ELSE "needs_slow"]
    /\ thumbnail_tasks' = Advance(thumbnail_tasks, task,
           [task EXCEPT !.pc = IF Tail(task.batch) = <<>> THEN "count" ELSE "fast",
                        !.batch = Tail(task.batch)])
    /\ UNCHANGED import_tasks
    /\ UNCHANGED <<pipeVars, shaderVars, histVars, editorVars, calcVars, viewVars>>

\* The count of the fast queue after the batch, query_row(..).unwrap_or(0),
\* and, if it is 0, the query of the slow queue.  `query` is the result of
\* query_row: "ok", or "error" (the database is locked by a writer).
\* pending_at_count is not a variable of the task: it records the number of
\* pending rows at the time of the count.
ThumbCountPending(task, query) ==
    /\ BagIn(task, thumbnail_tasks)
    /\ task.pc = "count"
    /\ LET pending_count == IF query = "ok" THEN CountByStatus("pending") ELSE 0
           slow_images == IF pending_count = 0
                          THEN SelectByStatus("needs_slow", slow_batch_size)
                          ELSE <<>>
       IN  thumbnail_tasks' = Advance(thumbnail_tasks, task,
               [task EXCEPT !.pc = IF slow_images # <<>> THEN "slow" ELSE "return",
                            !.batch = slow_images,
                            !.pending_at_count = CountByStatus("pending")])
    /\ UNCHANGED <<cache_status, import_tasks>>
    /\ UNCHANGED <<pipeVars, shaderVars, histVars, editorVars, calcVars, viewVars>>

\* The loop over slow_images: generate_thumbnail_slow returns Some (found)
\* or None, and the row is updated.
ThumbSlow(task, found) ==
    /\ BagIn(task, thumbnail_tasks)
    /\ task.pc = "slow"
    /\ cache_status' = [cache_status EXCEPT ![Head(task.batch)] =
                           IF found THEN "cached" ELSE "failed"]
    /\ thumbnail_tasks' = Advance(thumbnail_tasks, task,
           [task EXCEPT !.pc = IF Tail(task.batch) = <<>> THEN "return" ELSE "slow",
                        !.batch = Tail(task.batch)])
    /\ UNCHANGED import_tasks
    /\ UNCHANGED <<pipeVars, shaderVars, histVars, editorVars, calcVars, viewVars>>

\* generate_thumbnails_async returns and Message::ThumbnailGenerated is
\* handled: the next pass is started while a queue is not empty.
ThumbnailGenerated(task) ==
    /\ BagIn(task, thumbnail_tasks)
    /\ task.pc = "return"
    /\ IF library = "Some"
       THEN /\ images' = get_all_images
            /\ thumbnail_tasks' =
                  IF CountByStatus("pending") > 0 \/ CountByStatus("needs_slow") > 0
                  THEN Advance(thumbnail_tasks, task, NewPass)
                  ELSE thumbnail_tasks (-) SetToBag({task})
       ELSE /\ thumbnail_tasks' = thumbnail_tasks (-) SetToBag({task})
            /\ UNCHANGED images
    /\ UNCHANGED <<cache_status, import_tasks>>
    /\ UNCHANGED <<library, selected_image_id, current_tab, current_edit_params,
                   editor_status, saved_edits, database_task, load_tasks, construct_tasks,
                   export_tasks, pipelines, devices_created>>
    /\ UNCHANGED <<pipeVars, shaderVars, histVars, calcVars, viewVars>>

\* SpecThumb: the database is loaded, folders are imported and thumbnails
\* are generated; no image is selected.
NextThumb ==
    \/ \E result \in {"ok", "error"} : DatabaseLoaded(result)
    \/ ImportFolder
    \/ \E task \in BagToSet(import_tasks) : ImportInsert(task)
    \/ \E task \in BagToSet(import_tasks) : ImportComplete(task)
    \/ \E task \in BagToSet(thumbnail_tasks) : ThumbSelectPending(task)
    \/ \E task \in BagToSet(thumbnail_tasks), found \in BOOLEAN : ThumbFast(task, found)
    \/ \E task \in BagToSet(thumbnail_tasks), query \in {"ok", "error"} : ThumbCountPending(task, query)
    \/ \E task \in BagToSet(thumbnail_tasks), found \in BOOLEAN : ThumbSlow(task, found)
    \/ \E task \in BagToSet(thumbnail_tasks) : ThumbnailGenerated(task)

\* ------------------------------------------------------------------------
\* Zoom and pan (main.rs: the handlers of Message::Zoom, ResetView, Pan,
\* MousePressed, MouseReleased and MouseMoved).  f32 values are exact
\* rationals here; points and vectors are pairs of them.
\* ------------------------------------------------------------------------

\* Point::ORIGIN
ORIGIN == <<Q0, Q0>>
\* The cursor position on_scroll passes: the handler takes the last known
\* position instead.
SentinelPoint == <<QI(-1), QI(-1)>>

\* Scroll deltas after on_scroll's scaling: a fling of 2375 pixels up or
\* down, y * 0.01.  The zoom level is multiplied or divided by 20, which
\* takes it beyond either limit from every level.
ZoomDeltas == {Q(95, 4), Q(-95, 4)}

\* Cursor positions in the viewport of 1280 x 854 around a preview of 2 x 2:
\* away from the image, on its centre, and right of it within the margin.
CursorPositions == {<<QI(100), QI(427)>>, <<QI(640), QI(427)>>, <<QI(642), QI(427)>>}

\* Pan offsets the model follows: the multiples of 1/PanGrid that are at
\* most MaxPan on each axis.
MaxPan == 1
PanGrid == 1
PanInRange(pan) ==
    \A axis \in 1..2 :
        /\ QLe(QAbs(pan[axis]), QI(MaxPan))
        /\ (pan[axis][1] * PanGrid) % pan[axis][2] = 0

\* f32::clamp(min, max)
QClamp(x, min, max) == QMax(min, QMin(x, max))

\* Variant of the zoom limits that lets every zoom level through.
clamp_zoom_off(new_zoom) == new_zoom

\* new_zoom.clamp(0.1, 10.0)
clamp_zoom(new_zoom) == QClamp(new_zoom, Q(1, 10), QI(10))

\* The zoom level scaled by a scroll of `delta`, before the clamp.
scaled_zoom(old_zoom, delta) ==
    IF QLt(Q0, delta)
    THEN QMul(old_zoom, QAdd(Q1, QMul(delta, Q(4, 5))))
    ELSE QDiv(old_zoom, QAdd(Q1, QMul(QNeg(delta), Q(4, 5))))

\* The image view is on screen or has been: a pipeline has become Ready.
\* The mouse_area that sends these messages belongs to that view.
ImageViewShown == devices_created > 0

\* Message::Zoom(delta, cursor_pos)
Zoom(delta, given_pos) ==
    /\ ImageViewShown
    /\ LET cursor_pos == IF QLt(given_pos[1], Q0) \/ QLt(given_pos[2], Q0)
                         THEN IF last_cursor_position = NoPoint THEN ORIGIN
                              ELSE last_cursor_position
                         ELSE given_pos
       IN  IF editor_status.tag = "Ready"
           THEN LET pipeline == pipelines[editor_status.pipeline]
                    old_zoom == zoom
                    image_width == QI(pipeline.preview_width)
                    image_height == QI(pipeline.preview_height)
                    x_offset == QDiv(QSub(viewport_size[1], image_width), QI(2))
                    y_offset == QDiv(QSub(viewport_size[2], image_height), QI(2))
                    image_cursor_x == QSub(cursor_pos[1], x_offset)
                    image_cursor_y == QSub(cursor_pos[2], y_offset)
                    margin == QI(5)
                IN  IF \/ QLt(image_cursor_x, QNeg(margin))
                       \/ QLt(image_cursor_y, QNeg(margin))
                       \/ QLt(QAdd(image_width, margin), image_cursor_x)
                       \/ QLt(QAdd(image_height, margin), image_cursor_y)
                    THEN /\ zoom' = clamp_zoom(scaled_zoom(zoom, delta))
                         /\ UNCHANGED pan_offset
                    ELSE LET clamped_x == QClamp(image_cursor_x, Q0, image_width)
                             clamped_y == QClamp(image_cursor_y, Q0, image_height)
                             new_zoom == clamp_zoom(scaled_zoom(old_zoom, delta))
                             norm_cursor_x == QDiv(clamped_x, image_width)
                             norm_cursor_y == QDiv(clamped_y, image_height)
                             tex_x == QAdd(QSub(QDiv(QSub(norm_cursor_x, Q(1, 2)), old_zoom),
                                                pan_offset[1]), Q(1, 2))
                             tex_y == QAdd(QSub(QDiv(QSub(norm_cursor_y, Q(1, 2)), old_zoom),
                                                pan_offset[2]), Q(1, 2))
                         IN  /\ zoom' = new_zoom
                             /\ pan_offset' =
                                   <<QAdd(QSub(QDiv(QSub(norm_cursor_x, Q(1, 2)), new_zoom),
                                               tex_x), Q(1, 2)),
                                     QAdd(QSub(QDiv(QSub(norm_cursor_y, Q(1, 2)), new_zoom),
                                               tex_y), Q(1, 2))>>
                             /\ PanInRange(pan_offset')
           ELSE /\ zoom' = clamp_zoom(scaled_zoom(zoom, delta))
                /\ UNCHANGED pan_offset
    /\ UNCHANGED <<show_before, is_dragging, last_cursor_position, last_click_time,
                   viewport_size>>
    /\ UNCHANGED <<pipeVars, shaderVars, histVars, editorVars, calcVars, thumbVars>>

\* The body of Message::ResetView.
ResetView ==
    /\ zoom' = Q1
    /\ pan_offset' = <<Q0, Q0>>

\* The body of Message::Pan(delta).
Pan(delta) ==
    LET scale == QDiv(Q1, zoom)
    IN  /\ pan_offset' = <<QAdd(pan_offset[1], QMul(delta[1], scale)),
                           QAdd(pan_offset[2], QMul(delta[2], scale))>>
        /\ PanInRange(pan_offset')

\* Message::MousePressed.  `recent`: less than 300 ms have passed since
\* last_click_time.
MousePressed(recent) ==
    /\ ImageViewShown
    /\ last_click_time' = "Some"
    /\ IF last_click_time = "Some" /\ recent
       THEN /\ ResetView
            /\ UNCHANGED is_dragging
       ELSE /\ is_dragging' = TRUE
            /\ UNCHANGED <<zoom, pan_offset>>
    /\ UNCHANGED <<show_before, last_cursor_position, viewport_size>>
    /\ UNCHANGED <<pipeVars, shaderVars, histVars, editorVars, calcVars, thumbVars>>

\* Message::MouseReleased
MouseReleased ==
    /\ ImageViewShown
    /\ is_dragging' = FALSE
    /\ last_cursor_position' = NoPoint
    /\ UNCHANGED <<show_before, zoom, pan_offset, last_click_time, viewport_size>>
    /\ UNCHANGED <<pipeVars, shaderVars, histVars, editorVars, calcVars, thumbVars>>

\* One axis of the viewport size estimate of MouseMoved.
GrownViewport(size, coordinate) ==
    LET new_viewport == QMax(QMul(coordinate, Q(101, 100)), size)
    IN  IF QLt(QI(10), QAbs(QSub(new_viewport, size))) THEN new_viewport ELSE size

\* Message::MouseMoved(current_position)
MouseMoved(current_position) ==
    /\ ImageViewShown
    /\ viewport_size' = <<GrownViewport(viewport_size[1], current_position[1]),
                          GrownViewport(viewport_size[2], current_position[2])>>
    /\ last_cursor_position' = current_position
    /\ IF is_dragging /\ last_cursor_position # NoPoint
       THEN LET delta_x == QSub(current_position[1], last_cursor_position[1])
                delta_y == QSub(current_position[2], last_cursor_position[2])
                sensitivity ==
                    IF editor_status.tag = "Ready"
                    THEN <<Q(1, pipelines[editor_status.pipeline].preview_width),
                           Q(1, pipelines[editor_status.pipeline].preview_height)>>
                    ELSE <<Q(1, 1000), Q(1, 1000)>>
            IN  Pan(<<QMul(delta_x, sensitivity[1]), QMul(delta_y, sensitivity[2])>>)
       ELSE UNCHANGED pan_offset
    /\ UNCHANGED <<show_before, zoom, is_dragging, last_click_time>>
    /\ UNCHANGED <<pipeVars, shaderVars, histVars, editorVars, calcVars, thumbVars>>

\* SpecView: an image is opened on the Develop tab, its view is zoomed and
\* panned with the mouse, and ArrowRight opens the next image.
NextView ==
    \/ \E result \in {"ok", "error"} : DatabaseLoaded(result)
    \/ \E image_id \in ImageIds : ImageSelected(image_id)
    \/ TabChanged("Develop")
    \/ SelectNextImage
    \/ \E image \in ImageIds, result \in {"ok", "error"} : RawDataLoaded(image, result)
    \/ \E task \in BagToSet(construct_tasks), result \in ConstructResults :
          GpuPipelineReady(task, result)
    \/ \E delta \in ZoomDeltas : Zoom(delta, SentinelPoint)
    \/ \E recent \in BOOLEAN : MousePressed(recent)
    \/ MouseReleased
    \/ \E position \in CursorPositions : MouseMoved(position)

\* RawEditor::new: the splash state, with the database load in flight.
Init ==
    /\ library = "None"
    /\ images = <<>>
    /\ selected_image_id = NoneId
    /\ current_tab = "Library"
    /\ current_edit_params = DefaultParams
    /\ editor_status = NoSelection
    /\ saved_edits = [i \in ImageIds |->
                         IF i = 1 THEN [DefaultParams EXCEPT !["exposure"] = Q1]
                         ELSE NoEdits]
    /\ database_task = TRUE
    /\ load_tasks = EmptyBag
    /\ construct_tasks = EmptyBag
    /\ export_tasks = EmptyBag
    /\ pipelines = <<>>
    /\ devices_created = 0
    /\ pp_pipeline = NoPipeline
    /\ pp_given = NoArgs
    /\ pp_params = DefaultParams
    /\ pp_mapped = <<>>
    /\ pp_out = NoRender
    /\ pp_prev_out = NoRender
    /\ pp_readback = NoReadback
    /\ InitView
    /\ InitThumb
    /\ sh_ctx = NoCtx
    /\ sh_pc = 0
    /\ sh_color = <<Q0, Q0, Q0>>
    /\ sh_trace = <<>>
    /\ sh_out = NoOutput
    /\ ca_call = NoCall
    /\ ca_result = NoResult
    /\ hs_dims = <<0, 0>>
    /\ hs_bytes = <<>>
    /\ hs_out = NoHistogram

Next ==
    \/ \E result \in {"ok", "error"} : DatabaseLoaded(result)
    \/ \E image_id \in ImageIds : ImageSelected(image_id)
    \/ SelectNextImage
    \/ SelectPreviousImage
    \/ \E tab \in {"Library", "Develop"} : TabChanged(tab)
    \/ \E field \in SliderFields, value \in SliderValues : ParamChanged(field, value)
    \/ ResetEdits
    \/ \E image \in ImageIds, result \in {"ok", "error"} : RawDataLoaded(image, result)
    \/ \E task \in BagToSet(construct_tasks), result \in ConstructResults :
          GpuPipelineReady(task, result)
    \/ \E chosen \in BOOLEAN : ExportImage(chosen)
    \/ \E task \in BagToSet(export_tasks) : ExportRenderBegin(task)
    \/ \E task \in BagToSet(export_tasks) : ExportComplete(task)

Spec == Init /\ [][Next]_vars

\* A task started with Task::perform runs on the executor to its end and its
\* message is then delivered to update: the completion of a load and of a
\* construction are weakly fair.  Nothing is assumed of the user's events.
TaskCompletes ==
    /\ WF_vars(\E image \in ImageIds, result \in {"ok", "error"} : RawDataLoaded(image, result))
    /\ WF_vars(\E task \in BagToSet(construct_tasks), result \in ConstructResults :
                  GpuPipelineReady(task, result))

\* The handlers that read or write the editor status or start or end a load
\* or a construction.  The parameter, reset and export handlers do neither.
NextLive ==
    \/ \E result \in {"ok", "error"} : DatabaseLoaded(result)
    \/ \E image_id \in ImageIds : ImageSelected(image_id)
    \/ SelectNextImage
    \/ SelectPreviousImage
    \/ \E tab \in {"Library", "Develop"} : TabChanged(tab)
    \/ \E image \in ImageIds, result \in {"ok", "error"} : RawDataLoaded(image, result)
    \/ \E task \in BagToSet(construct_tasks), result \in ConstructResults :
          GpuPipelineReady(task, result)

SpecLive == Init /\ [][NextLive]_vars /\ TaskCompletes

\* SpecExport: a session on the Develop tab in which no slider is moved: the
\* image's saved edits are shown, toggled before/after, and exported.
NextExport ==
    \/ \E result \in {"ok", "error"} : DatabaseLoaded(result)
    \/ \E image_id \in ImageIds : ImageSelected(image_id)
    \/ \E tab \in {"Library", "Develop"} : TabChanged(tab)
    \/ \E image \in ImageIds, result \in {"ok", "error"} : RawDataLoaded(image, result)
    \/ \E task \in BagToSet(construct_tasks), result \in ConstructResults :
          GpuPipelineReady(task, result)
    \/ ToggleBeforeAfter
    \/ ViewDevelop
    \/ \E chosen \in BOOLEAN : ExportImage(chosen)
    \/ \E task \in BagToSet(export_tasks) : ExportRenderBegin(task)
    \/ \E task \in BagToSet(export_tasks) : ExportComplete(task)

SpecExport == Init /\ [][NextExport]_vars

SpecThumb == Init /\ [][NextThumb]_vars

SpecView == Init /\ [][NextView]_vars

\* SpecPipe: no pipeline yet; the other parts of the model stay idle.
InitPipe ==
    /\ pp_pipeline = NoPipeline
    /\ pp_given = NoArgs
    /\ pp_params = DefaultParams
    /\ pp_mapped = <<>>
    /\ pp_out = NoRender
    /\ pp_prev_out = NoRender
    /\ pp_readback = NoReadback
    /\ InitView
    /\ InitThumb
    /\ sh_ctx = NoCtx
    /\ sh_pc = 0
    /\ sh_color = <<Q0, Q0, Q0>>
    /\ sh_trace = <<>>
    /\ sh_out = NoOutput
    /\ ca_call = NoCall
    /\ ca_result = NoResult
    /\ hs_dims = <<0, 0>>
    /\ hs_bytes = <<>>
    /\ hs_out = NoHistogram
    /\ library = "None"
    /\ images = <<>>
    /\ selected_image_id = NoneId
    /\ current_tab = "Library"
    /\ current_edit_params = DefaultParams
    /\ editor_status = NoSelection
    /\ saved_edits = [i \in ImageIds |-> NoEdits]
    /\ database_task = FALSE
    /\ load_tasks = EmptyBag
    /\ construct_tasks = EmptyBag
    /\ export_tasks = EmptyBag
    /\ pipelines = <<>>
    /\ devices_created = 0

NextPipe ==
    \/ \E frame \in PipeFrames, params \in PipeParams,
          result \in ConstructResults :
            PipeNew(<<frame[1], frame[2]>>, params, frame[3], frame[4], result)
    \/ \E params \in PipeParams : PipeUpdateUniforms(params)
    \/ \E map_result \in MapResults : PipeRenderToBytes(map_result)
    \/ \E map_result \in MapResults : PipeRenderFullRes(map_result)

SpecPipe == InitPipe /\ [][NextPipe]_vars

\* SpecShader: an invocation about to run, its inputs drawn from the sets.
InitShader ==
    /\ sh_ctx \in ShaderContexts
    /\ sh_pc = 0
    /\ sh_color = <<Q0, Q0, Q0>>
    /\ sh_trace = <<>>
    /\ sh_out = NoOutput
    /\ ca_call = NoCall
    /\ ca_result = NoResult
    /\ pp_pipeline = NoPipeline
    /\ pp_given = NoArgs
    /\ pp_params = DefaultParams
    /\ pp_mapped = <<>>
    /\ pp_out = NoRender
    /\ pp_prev_out = NoRender
    /\ pp_readback = NoReadback
    /\ InitView
    /\ InitThumb
    /\ hs_dims = <<0, 0>>
    /\ hs_bytes = <<>>
    /\ hs_out = NoHistogram
    /\ library = "None"
    /\ images = <<>>
    /\ selected_image_id = NoneId
    /\ current_tab = "Library"
    /\ current_edit_params = DefaultParams
    /\ editor_status = NoSelection
    /\ saved_edits = [i \in ImageIds |-> NoEdits]
    /\ database_task = FALSE
    /\ load_tasks = EmptyBag
    /\ construct_tasks = EmptyBag
    /\ export_tasks = EmptyBag
    /\ pipelines = <<>>
    /\ devices_created = 0

NextShader ==
    \/ ShaderStage
    \/ ShaderReturn

SpecShader == InitShader /\ [][NextShader]_vars

\* SpecHist: a rendered buffer of pw * ph pixels, not yet counted.
InitHist ==
    /\ \E pw \in 1..MaxHistPixels, ph \in 1..MaxHistPixels :
          /\ pw * ph <= MaxHistPixels
          /\ hs_dims = <<pw, ph>>
          /\ \E pixels \in [1..(pw * ph) -> HistPixels] : hs_bytes = Flatten(pixels)
    /\ hs_out = NoHistogram
    /\ pp_pipeline = NoPipeline
    /\ pp_given = NoArgs
    /\ pp_params = DefaultParams
    /\ pp_mapped = <<>>
    /\ pp_out = NoRender
    /\ pp_prev_out = NoRender
    /\ pp_readback = NoReadback
    /\ InitView
    /\ InitThumb
    /\ sh_ctx = NoCtx
    /\ sh_pc = 0
    /\ sh_color = <<Q0, Q0, Q0>>
    /\ sh_trace = <<>>
    /\ sh_out = NoOutput
    /\ ca_call = NoCall
    /\ ca_result = NoResult
    /\ library = "None"
    /\ images = <<>>
    /\ selected_image_id = NoneId
    /\ current_tab = "Library"
    /\ current_edit_params = DefaultParams
    /\ editor_status = NoSelection
    /\ saved_edits = [i \in ImageIds |-> NoEdits]
    /\ database_task = FALSE
    /\ load_tasks = EmptyBag
    /\ construct_tasks = EmptyBag
    /\ export_tasks = EmptyBag
    /\ pipelines = <<>>
    /\ devices_created = 0

NextHist == HistCalculate

SpecHist == InitHist /\ [][NextHist]_vars

\* SpecCalc: a call about to be made, its argument drawn from the sets.
InitCalc ==
    /\ ca_call \in CalcCalls
    /\ ca_result = NoResult
    /\ pp_pipeline = NoPipeline
    /\ pp_given = NoArgs
    /\ pp_params = DefaultParams
    /\ pp_mapped = <<>>
    /\ pp_out = NoRender
    /\ pp_prev_out = NoRender
    /\ pp_readback = NoReadback
    /\ InitView
    /\ InitThumb
    /\ sh_ctx = NoCtx
    /\ sh_pc = 0
    /\ sh_color = <<Q0, Q0, Q0>>
    /\ sh_trace = <<>>
    /\ sh_out = NoOutput
    /\ hs_dims = <<0, 0>>
    /\ hs_bytes = <<>>
    /\ hs_out = NoHistogram
    /\ library = "None"
    /\ images = <<>>
    /\ selected_image_id = NoneId
    /\ current_tab = "Library"
    /\ current_edit_params = DefaultParams
    /\ editor_status = NoSelection
    /\ saved_edits = [i \in ImageIds |-> NoEdits]
    /\ database_task = FALSE
    /\ load_tasks = EmptyBag
    /\ construct_tasks = EmptyBag
    /\ export_tasks = EmptyBag
    /\ pipelines = <<>>
    /\ devices_created = 0

NextCalc ==
    \/ CalcLoadRawData
    \/ CalcCamToSrgb
    \/ CalcPreviewDimensions
    \/ CalcLevelsDenominator

SpecCalc == InitCalc /\ [][NextCalc]_vars
\* ------------------------------------------------------------------------
\* Properties
\* ------------------------------------------------------------------------

\* The words of the uniform buffer that hold the ten edit parameters.
EditWords ==
    {GpuEditParamsOffsets[FieldIndex(GpuEditParamsFields, f)] \div 4 : f \in EditFieldSet}

\* C3: once a pipeline is constructed, update_uniforms and the two renders
\* never write the texture again (one upload, the data given at
\* construction); only the uniform buffer changes, and in it only the words
\* of the ten edit parameters: the white balance multipliers and the matrix
\* rows the shader reads stay the ones given at construction.
C3_TextureOnceMetadataKept ==
    pp_pipeline # NoPipeline =>
        /\ pp_pipeline.texture_writes = 1
        /\ pp_pipeline.texture =
              [width |-> pp_given.width, height |-> pp_given.height,
               data |-> pp_given.raw_data]
        /\ [pp_pipeline EXCEPT !.uniform_buffer = pp_given.uniform_buffer]
              = RenderPipelineNew(pp_given.image_id, pp_given.raw_data, pp_given.width,
                                  pp_given.height, pp_given.params,
                                  pp_given.wb_multipliers, pp_given.color_matrix,
                                  pp_pipeline.device)
        /\ DOMAIN pp_pipeline.uniform_buffer = DOMAIN pp_given.uniform_buffer
        /\ \A k \in DOMAIN pp_pipeline.uniform_buffer :
              k \notin EditWords =>
                  pp_pipeline.uniform_buffer[k] = pp_given.uniform_buffer[k]
        /\ UniformRead(pp_pipeline.uniform_buffer, "wb_multipliers")
              = pp_given.wb_multipliers
        /\ UniformRead(pp_pipeline.uniform_buffer, "color_matrix_0")
              \o UniformRead(pp_pipeline.uniform_buffer, "color_matrix_1")
              \o UniformRead(pp_pipeline.uniform_buffer, "color_matrix_2")
              = pp_given.color_matrix

\* C3 witness: a pipeline with camera metadata whose uniform buffer was
\* rewritten with other parameters and which has rendered since.
C3_Witness ==
    /\ pp_pipeline # NoPipeline
    /\ pp_given.wb_multipliers = CameraWb
    /\ pp_pipeline.uniform_buffer # pp_given.uniform_buffer
    /\ pp_out # NoRender
    /\ pp_out.params # pp_given.params

\* C6: GpuEditParams and the WGSL EditParams have the same fields in the
\* same order (padding fields match padding fields), every field at the
\* same byte offset with the same size, and the same total size; what the
\* shader reads in a field of a pipeline's uniform buffer is what the host
\* struct holds in that field.
C6_UniformLayoutsAgree ==
    /\ Len(GpuEditParamsFields) = Len(WgslEditParamsFields)
    /\ \A i \in 1..Len(GpuEditParamsFields) :
          /\ GpuEditParamsFields[i].pad = WgslEditParamsFields[i].pad
          /\ ~GpuEditParamsFields[i].pad =>
                GpuEditParamsFields[i].name = WgslEditParamsFields[i].name
          /\ FieldOffset(GpuEditParamsFields, i) = FieldOffset(WgslEditParamsFields, i)
          /\ TypeSize(GpuEditParamsFields[i].ty) = TypeSize(WgslEditParamsFields[i].ty)
    /\ StructSize(GpuEditParamsFields) = StructSize(WgslEditParamsFields)
    /\ pp_pipeline # NoPipeline =>
          LET host == WithColorMetadata(GpuEditParamsFrom(pp_params),
                                        pp_given.wb_multipliers, pp_given.color_matrix)
          IN  \A i \in 1..Len(WgslEditParamsFields) :
                 ~WgslEditParamsFields[i].pad =>
                    UniformRead(pp_pipeline.uniform_buffer, WgslEditParamsFields[i].name)
                       = host[WgslEditParamsFields[i].name]

\* C6 witness: the shader has read, through the WGSL layout, a block the
\* host wrote with camera metadata after a parameter update.
C6_Witness ==
    /\ pp_out # NoRender
    /\ pp_given.color_matrix = CameraMatrix
    /\ UniformRead(pp_pipeline.uniform_buffer, "color_matrix_1") = <<Q0, Q(1, 2), Q(1, 2)>>
    /\ UniformRead(pp_pipeline.uniform_buffer, "tint") = <<QI(5)>>

\* The smallest multiple of the copy alignment that is >= n.
SmallestPitchAtLeast(n) ==
    CHOOSE p \in {COPY_BYTES_PER_ROW_ALIGNMENT * k : k \in 1..n} :
        /\ p >= n
        /\ p - COPY_BYTES_PER_ROW_ALIGNMENT < n

\* C7: a render of a w x h target returns exactly w*h*4 bytes, and output
\* byte y*4w + i is the byte at offset y*P + i of the mapped buffer, P the
\* smallest multiple of 256 >= 4w; no padding byte is in the output.
C7_ReadbackTightlyPacked ==
    pp_out # NoRender =>
        LET w == pp_out.width
            h == pp_out.height
            P == SmallestPitchAtLeast(4 * w)
        IN  /\ pp_out.kind = "preview" =>
                  w = pp_pipeline.preview_width /\ h = pp_pipeline.preview_height
            /\ pp_out.kind = "full" => w = pp_pipeline.width /\ h = pp_pipeline.height
            /\ Len(pp_out.bytes) = w * h * 4
            /\ \A y \in 0..(h - 1), i \in 0..(4 * w - 1) :
                  /\ (y * P + i) \in DOMAIN pp_mapped
                  /\ pp_out.bytes[y * 4 * w + i + 1] = pp_mapped[y * P + i]
                  /\ pp_out.bytes[y * 4 * w + i + 1] # RowPadding

\* C7 witness: a render of more than one row whose rows are longer than one
\* alignment unit, so that the pitch is 512 and the rows are 260 bytes.
C7_Witness ==
    /\ pp_out # NoRender
    /\ pp_out.width = 65
    /\ pp_out.height = 2
    /\ Len(pp_out.bytes) = 520
    /\ pp_mapped[260] = RowPadding

ExpectedStages ==
    <<"debayer", "white_balance", "color_matrix", "exposure", "highlights_shadows",
      "contrast", "levels", "saturation", "gamma_encode", "clamp">>

\* C4: an invocation of fs_main executes the ten stages once each in the
\* order debayer, white balance, color matrix, exposure, highlights/shadows,
\* contrast, levels, saturation, gamma encode, clamp: what it has executed
\* is always a prefix of that list, and the whole list when it returns.
C4_StagesInOrder ==
    /\ Len(sh_trace) <= Len(ExpectedStages)
    /\ sh_trace = SubSeq(ExpectedStages, 1, Len(sh_trace))
    /\ sh_out # NoOutput => sh_trace = ExpectedStages

\* C4 witness: an invocation with camera metadata has returned.
C4_Witness ==
    /\ sh_out # NoOutput
    /\ Len(sh_trace) = 10
    /\ UniformRead(sh_ctx.buffer, "wb_multipliers") = CameraWb

\* All ten parameters of the invocation's uniform block are 0.
ShaderParamsAreDefault ==
    \A f \in EditFieldSet : UniformRead(sh_ctx.buffer, f) = <<Q0>>

\* gamma encode and clamp applied to a linear color.
EncodeAndClamp(color) ==
    <<ClampEncoded(GammaEncode(color[1])), ClampEncoded(GammaEncode(color[2])),
      ClampEncoded(GammaEncode(color[3])), Q1>>

\* C5 (as stated): with all-default parameters the returned color is the
\* color after debayer, white balance and color matrix, gamma encoded and
\* clamped.
C5_DefaultsAreIdentity ==
    (sh_out # NoOutput /\ ShaderParamsAreDefault)
        => sh_out = EncodeAndClamp(ColorAfter(sh_ctx, 3))

\* C8: the histograms of a buffer of pw * ph pixels are three arrays of 256
\* bins; bin v of channel c counts the pixels whose byte c equals v, so each
\* array sums to pw * ph whatever the alpha bytes are.
RECURSIVE BinSum(_, _, _)
BinSum(bins, lo, hi) ==
    IF lo > hi THEN 0
    ELSE IF lo = hi THEN bins[lo]
    ELSE BinSum(bins, lo, (lo + hi) \div 2) + BinSum(bins, (lo + hi) \div 2 + 1, hi)

C8_HistogramCountsPixels ==
    hs_out # NoHistogram =>
        /\ DOMAIN hs_out = 1..3
        /\ \A c \in 1..3 :
              /\ DOMAIN hs_out[c] = 0..255
              /\ BinSum(hs_out[c], 0, 255) = hs_dims[1] * hs_dims[2]
              /\ \A v \in 0..255 :
                    hs_out[c][v] =
                        Cardinality({k \in 1..(hs_dims[1] * hs_dims[2]) :
                                        hs_bytes[4 * (k - 1) + c] = v})

\* C8 witness: the histogram of a buffer of three pixels, one of them with
\* alpha 0 and one with alpha 7.
C8_Witness ==
    /\ hs_out # NoHistogram
    /\ Len(hs_bytes) = 12
    /\ hs_bytes[4] = 255
    /\ hs_bytes[8] = 0
    /\ hs_bytes[12] = 7
\* C1 (as stated): on the Develop tab a Ready pipeline is the pipeline of
\* the selected image.
C1_ReadyPipelineIsSelected ==
    (current_tab = "Develop" /\ editor_status.tag = "Ready")
        => pipelines[editor_status.pipeline].image_id = selected_image_id

\* C2 (as stated): while an export task is inside render_full_res_to_bytes
\* on a pipeline, no step of the application rewrites that pipeline's
\* uniform buffer.
C2_NoUniformWriteDuringExportRender ==
    [][\A task \in BagToSet(export_tasks) :
          (task.phase = "rendering" /\ task.pipeline \in DOMAIN pipelines')
              => pipelines'[task.pipeline].uniform_buffer
                    = pipelines[task.pipeline].uniform_buffer]_vars

\* C10 (as stated): at most one GPU device is ever created.
C10_AtMostOneDevice == devices_created <= 1
\* A step in which a RenderPipeline::new task ends with an error.
ConstructionFails ==
    /\ \E task \in BagToSet(construct_tasks) :
          construct_tasks' = construct_tasks (-) SetToBag({task})
    /\ devices_created' = devices_created

\* A step that handles a user event which may request a load.
UserEvent ==
    \/ \E image_id \in ImageIds : ImageSelected(image_id)
    \/ SelectNextImage
    \/ SelectPreviousImage
    \/ TabChanged("Develop")

C12_ReadbackFailureIsErrorResult ==
    (pp_readback # NoReadback /\ pp_readback.map # "ok")
        => pp_readback.outcome = "error_result"

\* A coefficient that is a positive number.
IsPositiveNumber(x) == is_finite(x) /\ F32Lt(Q0, x)

\* C13: for a file with three positive white balance coefficients (r, g, b)
\* the loader returns (r/g, 1, b/g, 1): green exactly 1 however small g is,
\* and the synthesized fourth channel equal to the normalized green.
C13_GreenNormalizedToOne ==
    (/\ ca_call.fn = "load_raw_data_blocking"
     /\ ca_result.tag = "Ok"
     /\ Len(ca_call.arg.wb_coeffs) = 3
     /\ \A i \in 1..3 : IsPositiveNumber(ca_call.arg.wb_coeffs[i]))
        => LET r == ca_call.arg.wb_coeffs[1]
               g == ca_call.arg.wb_coeffs[2]
               b == ca_call.arg.wb_coeffs[3]
           IN  /\ ca_result.wb_multipliers[2] = Q1
               /\ ca_result.wb_multipliers[1] = QDiv(r, g)
               /\ ca_result.wb_multipliers[3] = QDiv(b, g)
               /\ ca_result.wb_multipliers[4] = ca_result.wb_multipliers[2]

\* The coefficients hold no valid green value: fewer than three of them, or
\* a green that is zero, negative or not finite.
NoValidGreen(wb_coeffs) ==
    Len(wb_coeffs) < 3 \/ ~IsPositiveNumber(wb_coeffs[2])

\* C14: for a file without a valid green coefficient the loader returns
\* exactly the neutral white balance (1, 1, 1, 1).
C14_NeutralWithoutValidGreen ==
    (/\ ca_call.fn = "load_raw_data_blocking"
     /\ ca_result.tag = "Ok"
     /\ NoValidGreen(ca_call.arg.wb_coeffs))
        => ca_result.wb_multipliers = NeutralWb

\* Determinant, inverse and product of 3 x 3 matrices (row-major).
Det(m) ==
    QAdd(QSub(QMul(m[1], QSub(QMul(m[5], m[9]), QMul(m[6], m[8]))),
              QMul(m[2], QSub(QMul(m[4], m[9]), QMul(m[6], m[7])))),
         QMul(m[3], QSub(QMul(m[4], m[8]), QMul(m[5], m[7]))))

Minor(m, a, b, c, d) == QSub(QMul(m[a], m[b]), QMul(m[c], m[d]))

Inverse(m) ==
    LET adj == <<Minor(m, 5, 9, 6, 8), Minor(m, 3, 8, 2, 9), Minor(m, 2, 6, 3, 5),
                 Minor(m, 6, 7, 4, 9), Minor(m, 1, 9, 3, 7), Minor(m, 3, 4, 1, 6),
                 Minor(m, 4, 8, 5, 7), Minor(m, 2, 7, 1, 8), Minor(m, 1, 5, 2, 4)>>
        det == Det(m)
    IN  [i \in 1..9 |-> QDiv(adj[i], det)]

MatMul(a, b) ==
    [n \in 1..9 |->
        LET i == (n - 1) \div 3
            j == (n - 1) % 3
        IN  QAdd(QAdd(QMul(a[3 * i + 1], b[j + 1]), QMul(a[3 * i + 2], b[j + 4])),
                 QMul(a[3 * i + 3], b[j + 7]))]

\* C15: for a singular calibration matrix and for one within epsilon of the
\* identity, calculate_cam_to_srgb_matrix returns a value, and the value is
\* the identity matrix.
C15_DegenerateGivesIdentity ==
    (/\ ca_call.fn = "calculate_cam_to_srgb_matrix"
     /\ ca_result # NoResult
     /\ (is_identity_matrix(ca_call.arg) \/ Det(ca_call.arg) = Q0))
        => ca_result = [tag |-> "value", matrix |-> IdentityMatrix]

\* C15 witness: the function has returned for the all-zero matrix.
C15_Witness ==
    /\ ca_call.fn = "calculate_cam_to_srgb_matrix"
    /\ ca_call.arg = <<Q0, Q0, Q0, Q0, Q0, Q0, Q0, Q0, Q0>>
    /\ ca_result # NoResult

\* C16: for an invertible calibration matrix that is not within epsilon of
\* the identity, calculate_cam_to_srgb_matrix returns XYZ_TO_SRGB times the
\* inverse of the calibration matrix, which is not the identity.
C16_ProductWithInverse ==
    (/\ ca_call.fn = "calculate_cam_to_srgb_matrix"
     /\ ca_result # NoResult
     /\ ~is_identity_matrix(ca_call.arg)
     /\ Det(ca_call.arg) # Q0)
        => /\ ca_result.matrix = MatMul(XYZ_TO_SRGB, Inverse(ca_call.arg))
           /\ ca_result.matrix # IdentityMatrix

\* C17: for a frame w x h the preview width is min(w, 2560), the preview
\* height is floor(preview_width * h / w), and a frame no wider than 2560
\* keeps its dimensions.
C17_PreviewDimensions ==
    (ca_call.fn = "preview_dimensions" /\ ca_result # NoResult)
        => LET w == ca_call.arg[1]
               h == ca_call.arg[2]
           IN  /\ ca_result.preview_width = Min(w, MAX_PREVIEW_WIDTH)
               /\ ca_result.preview_width <= MAX_PREVIEW_WIDTH
               /\ ca_result.preview_width <= w
               /\ ca_result.preview_height = (ca_result.preview_width * h) \div w
               /\ w <= MAX_PREVIEW_WIDTH =>
                     /\ ca_result.preview_width = w
                     /\ ca_result.preview_height = h

\* C18: the denominator of the Levels stage is never zero and its magnitude
\* is at least the guard epsilon, whatever whites and blacks are.
C18_LevelsDenominatorGuarded ==
    (ca_call.fn = "levels_denominator" /\ ca_result # NoResult)
        => /\ ca_result.denominator # Q0
           /\ QLe(LevelsEpsilon, QAbs(ca_result.denominator))

\* C19: on the 4 x 4 Bayer mosaic debayer returns (r, g, b) / 4096 at each
\* of the 16 pixels: every channel is read from a site of its colour.
C19_UniformMosaicDebayersUniform ==
    (sh_ctx # NoCtx /\ sh_ctx.tex.width = 4 /\ sh_pc = 1)
        => sh_color = <<Q(BayerValues.red, BIT_DEPTH_SCALE),
                        Q(BayerValues.green, BIT_DEPTH_SCALE),
                        Q(BayerValues.blue, BIT_DEPTH_SCALE)>>

\* The pixel_coords of the fragments of the last render.
RenderedCoords ==
    {<<PixelCoord(x, pp_out.width, pp_pipeline.width),
       PixelCoord(y, pp_out.height, pp_pipeline.height)>> :
        x \in 0..(pp_out.width - 1), y \in 0..(pp_out.height - 1)}

\* C20: for every pixel of a rendered target every texture load addresses a
\* texel inside the texture, and two pixels whose coordinates have the same
\* row parity and the same column parity are reconstructed by the same
\* rule.
C20_LoadsInBoundsRuleByParity ==
    pp_out # NoRender =>
        /\ \A c \in RenderedCoords :
              \A t \in TextureLoads(pp_pipeline.texture, c[1], c[2]) :
                 /\ 0 <= t[1] /\ t[1] < pp_pipeline.width
                 /\ 0 <= t[2] /\ t[2] < pp_pipeline.height
        /\ \A c \in RenderedCoords, d \in RenderedCoords :
              (c[1] % 2 = d[1] % 2 /\ c[2] % 2 = d[2] % 2)
                 => DebayerRule(c[1], c[2]) = DebayerRule(d[1], d[2])

\* C20 witness: a render of the 1 x 7 frame to its 1 x 6 preview, a target
\* smaller than the texture, where the loads to the left, to the right and
\* below the last row are clamped.
C20_Witness ==
    /\ pp_out # NoRender
    /\ pp_out.kind = "preview"
    /\ pp_pipeline.width = 1
    /\ pp_out.height < pp_pipeline.height
    /\ <<0, 6>> \in RenderedCoords

\* A channel value that is a number of [0, 1] after gamma encode and clamp.
InUnitRange(g) == g # "NaN" /\ QLe(Q0, g[2]) /\ QLe(g[2], Q1)

\* C21 (as stated): the color passed to gamma encode (the color after the
\* saturation stage) has no negative channel, and every channel of the
\* returned color is a number of [0, 1].
C21_OutputInUnitRange ==
    /\ (sh_pc = 8) => \A i \in 1..3 : QLe(Q0, sh_color[i])
    /\ (sh_out # NoOutput) => \A i \in 1..3 : InUnitRange(sh_out[i])

\* The contrast statement as described: the parameter value itself is the
\* gain added to 1.
ContrastAsStated(color, contrast) ==
    LET half == VSplat(Q(1, 2))
    IN  VAdd(VScale(VSub(color, half), QAdd(Q1, contrast)), half)

\* C22 (as stated): the contrast stage maps each channel c of the color
\* after highlights/shadows to (c - 0.5) * (1 + contrast) + 0.5, contrast
\* being the value of the parameter in the uniform block; with contrast = 0
\* the color is unchanged.
C22_ContrastFormula ==
    (sh_pc = 6) =>
        /\ sh_color = ContrastAsStated(ColorAfter(sh_ctx, 5), Param(sh_ctx, "contrast"))
        /\ Param(sh_ctx, "contrast") = Q0 => sh_color = ColorAfter(sh_ctx, 5)

\* C23: the ResetEdits handler, in every editor status, leaves all ten
\* parameters at their default, so that is_unedited() is true of them;
\* EditParams::reset applied to any parameters the editor holds yields
\* parameters of which is_unedited() is true; and is_unedited() is true of
\* parameters exactly when each of the ten equals its default.
C23_ResetGivesUnedited ==
    /\ [](/\ is_unedited(reset(current_edit_params))
          /\ is_unedited(current_edit_params)
                <=> \A f \in EditFieldSet : current_edit_params[f] = DefaultParams[f])
    /\ [][ResetEdits =>
            /\ is_unedited(current_edit_params')
            /\ \A f \in EditFieldSet : current_edit_params'[f] = DefaultParams[f]]_vars

\* C23 witness: image 1, whose edits were saved, is Ready, its saved edits
\* are deleted and the parameters in the editor and in the pipeline's
\* uniform block are the defaults: ResetEdits has acted on edited parameters.
C23_Witness ==
    /\ editor_status.tag = "Ready"
    /\ selected_image_id = 1
    /\ saved_edits[1] = NoEdits
    /\ is_unedited(current_edit_params)
    /\ UniformRead(pipelines[editor_status.pipeline].uniform_buffer, "exposure") = <<Q0>>

\* The user selects an image: a click on a thumbnail, ArrowRight, ArrowLeft.
UserSelects ==
    \/ \E image_id \in ImageIds : ImageSelected(image_id)
    \/ SelectNextImage
    \/ SelectPreviousImage

\* C24: the editor status is one of NoSelection, Loading, Ready, Failed; once
\* it has left NoSelection it never returns to it; and if every started task
\* delivers its completion message and the user eventually stops selecting
\* images, then whenever the status is Loading it is later Ready or Failed.
C24_LoadingEnds ==
    /\ [](editor_status.tag \in {"NoSelection", "Loading", "Ready", "Failed"})
    /\ [][editor_status # NoSelection => editor_status' # NoSelection]_vars
    /\ (<>[][~UserSelects]_vars) =>
          ((editor_status.tag = "Loading") ~> (editor_status.tag \in {"Ready", "Failed"}))

\* C24 witness: two loads have gone from Loading to Ready and no task is left.
C24_Witness ==
    /\ editor_status.tag = "Ready"
    /\ devices_created = 2
    /\ TasksInFlight = 0

\* C25 (as stated): the texture of the pipeline of a Ready status holds the
\* sensor data decoded from the image the pipeline is tagged with, and the
\* Failed status set when a load fails names the image of that load.
C25_PipelineTaggedWithItsImage ==
    /\ [](editor_status.tag = "Ready" =>
            LET pipeline == pipelines[editor_status.pipeline]
            IN  pipeline.texture.data = RawDataOf(pipeline.image_id).data)
    /\ [][\A image \in ImageIds :
            RawDataLoaded(image, "error") => editor_status' = Failed(image, "error")]_vars

\* C26 (as stated): when the full-resolution render of an export begins, the
\* uniform block of its pipeline holds the edit parameters that were current
\* when the export was requested, whatever the Before/After toggle shows.
C26_ExportUsesCurrentParams ==
    [][\A task \in BagToSet(export_tasks) :
          ExportRenderBegin(task) =>
              pipelines[task.pipeline].uniform_buffer
                  = update_uniforms(pipelines[task.pipeline], task.requested).uniform_buffer]_vars

\* C27 (as stated): the slow method is applied to an image only in a pass
\* that found no pending image when it counted them after its fast batch,
\* and only while no image is pending, imports running or not: the fast
\* queue is served before the slow queue.
C27_SlowOnlyAfterFastQueue ==
    [][\A task \in BagToSet(thumbnail_tasks), found \in BOOLEAN :
          ThumbSlow(task, found) =>
              /\ task.pending_at_count = 0
              /\ CountByStatus("pending") = 0]_vars

\* The editor status is about `image_id`: its pipeline is Ready, or its load
\* is in progress.
LoadedOrLoading(image_id) ==
    \/ editor_status.tag = "Ready" /\ pipelines[editor_status.pipeline].image_id = image_id
    \/ editor_status.tag = "Loading" /\ editor_status.id = image_id

\* C28: on the Develop tab, re-selecting the image whose pipeline is Ready
\* or whose load is in progress, and switching to the Develop tab in either
\* of these states, starts no RAW load task and leaves editor_status as it
\* is.
C28_NoReloadWhenLoadedOrLoading ==
    [][\A image_id \in ImageIds :
          /\ LoadedOrLoading(image_id)
          /\ \/ current_tab = "Develop" /\ HandleImageSelected(image_id)
             \/ selected_image_id = image_id /\ TabChanged("Develop")
          => UNCHANGED <<editor_status, load_tasks>>]_vars

\* Image 1 is selected on the Develop tab and its pipeline is Ready while
\* the load of image 2 is in flight: the state after selecting image 1
\* again with ArrowRight, and after switching to the Library tab and back,
\* with no load of image 1 started.
C28_Witness ==
    /\ current_tab = "Develop"
    /\ selected_image_id = 1
    /\ editor_status.tag = "Ready"
    /\ pipelines[editor_status.pipeline].image_id = 1
    /\ load_tasks = SetToBag({2})
    /\ construct_tasks = EmptyBag

\* C29 (as stated): for every frame of width >= 1 and height >= 1 the
\* preview target computed at construction has preview_width >= 1 and
\* preview_height >= 1.
C29_PreviewAtLeastOne ==
    (ca_call.fn = "preview_dimensions" /\ ca_result # NoResult)
        => (ca_call.arg[1] >= 1 /\ ca_call.arg[2] >= 1
               => ca_result.preview_width >= 1 /\ ca_result.preview_height >= 1)

\* C30: after any sequence of Zoom, Pan, ResetView, MousePressed, MouseMoved
\* and MouseReleased messages, in every editor status, the zoom level is
\* within [0.1, 10.0]; a double-click (ResetView) sets the zoom level to 1.0
\* and the pan offset to (0, 0).
C30_ZoomWithinLimits ==
    /\ [](QLe(Q(1, 10), zoom) /\ QLe(zoom, QI(10)))
    /\ [][\A recent \in BOOLEAN :
             (last_click_time = "Some" /\ recent /\ MousePressed(recent))
                 => (zoom' = Q1 /\ pan_offset' = <<Q0, Q0>>)]_vars

\* The zoom level is 1/2, which only a zoom out from the upper limit gives
\* (20 clamped to 10, then 10 / 20), the image is panned, a click has been
\* made, and the pipeline is not Ready any more.
C30_Witness ==
    /\ zoom = Q(1, 2)
    /\ pan_offset # <<Q0, Q0>>
    /\ last_click_time = "Some"
    /\ editor_status.tag # "Ready"

====
